---- MODULE Spec2Model ----
(***************************************************************************)
(* Model of the optimistic-concurrency save protocol of eduid-scimapi      *)
(* (ScimApiInviteDB.save / ScimApiGroupDB.save) and of the dual-store      *)
(* group operations (ScimApiGroupDB.create_group / update_group).          *)
(*                                                                         *)
(* Every caller (a request being served) is a process.  A process takes    *)
(* one atomic step per access to shared state: a read of the clock, one    *)
(* call on the document collection, one call on the graph store.  Purely   *)
(* local computation is folded into the step of the access that follows    *)
(* or precedes it.                                                         *)
(***************************************************************************)
EXTENDS Integers, FiniteSets, Sequences, TLC

\* ---------------------------------------------------------------- bounds
\* The callers.  Two race; a caller that finished its save is free to do
\* the next operation (a remove, say) while the other is still in its save.
Procs == {"p1", "p2"}

\* The callers that construct new records.  Callers are interchangeable, so
\* fixing who constructs loses no behaviour up to renaming.
Creators == {"p1"}

\* How many records (ObjectId primary keys / uuid4 scim ids) are ever made.
MaxIds == 1

\* How many ObjectId() version tokens are ever minted.
MaxVersion == 4

\* How far the clock advances.
MaxClock == 1

VARIABLES
    coll,       \* self._coll: the document collection, a set of documents
    graphdb,    \* self.graphdb: the graph store, a set of graph groups
    now,        \* the clock read by datetime.utcnow()
    ids,        \* number of primary keys / scim ids made so far
    oids,       \* number of ObjectId() version tokens minted so far
    pc,         \* per caller: where it stands
    op,         \* per caller: the operation it is in
    obj,        \* per caller: the in-memory record (invite / group)
    dict,       \* per caller: invite_dict / group_dict of the running save
    test_doc,   \* per caller: the compare key of the running save
    result,     \* per caller: the UpdateResult of replace_one
    ret,        \* per caller: how its last operation ended
    wrote,      \* per caller: store writes of its current operation, in order
    seen,       \* per caller: what the store held for the record when its save began
    want,       \* per caller: the desired state its update_group was given
    race,       \* history: version -> how the saves begun from it ended
    hist,       \* history: id -> what successful saves stored for it
    peak,       \* history: per caller, most matching documents during its query
    events,     \* the events the user handlers have emitted
    poll,       \* the poller of the range query: its threshold, what it received
    overtaken   \* history: per caller, a later commit's graph group was stored before its own

vars == <<coll, graphdb, now, ids, oids, pc, op, obj, dict, test_doc, result,
          ret, wrote, seen, want, race, hist, peak, events, poll, overtaken>>

\* Python's None, for the in-memory record and for optional values.
None == [none |-> TRUE]

\* None for Optional[str] fields (kept a string so that it compares with strings).
NoneStr == "None"

\* external_id values a caller may give an invite.
ExternalIds == {NoneStr}

Ids == 1..MaxIds
Versions == 1..MaxVersion

\* ------------------------------------------------------- pure functions
\* uuid.UUID(s) and str(u): a UUID in memory is not its string form.
UUIDOf(s) == [uuid |-> s]
StrOf(u) == u.uuid

\* ScimApiInvite(...): the dataclass with its default factories.
ScimApiInvite(id, v, t, ext) ==
    [invite_id |-> id, scim_id |-> UUIDOf(id), external_id |-> ext,
     version |-> v, created |-> t, last_modified |-> t]

\* ScimApiInvite.to_dict: scim_id becomes a string, invite_id becomes _id.
InviteToDict(o) ==
    [_id |-> o.invite_id, scim_id |-> StrOf(o.scim_id),
     external_id |-> o.external_id, version |-> o.version,
     created |-> o.created, last_modified |-> o.last_modified]

\* ScimApiInvite.from_dict: the inverse renaming and parsing.
InviteFromDict(d) ==
    [invite_id |-> d._id, scim_id |-> UUIDOf(d.scim_id),
     external_id |-> d.external_id, version |-> d.version,
     created |-> d.created, last_modified |-> d.last_modified]

\* Variant of DuplicateKey for a collection without the unique indexes:
\* only the primary key is unique; C20 must fail with it.
DuplicateKey_PrimaryOnly(d, others) == \E o \in others : o._id = d._id

\* The primary key, and on invite documents the unique indexes set up by
\* ScimApiInviteDB.__init__ (the group collection has none): would storing
\* d next to the documents in others be a duplicate key?  to_dict always
\* writes the external_id field (null when None), so the sparse index
\* holds an entry for it.
DuplicateKey(d, others) ==
    \E o \in others :
        \/ o._id = d._id
        \/ /\ "external_id" \in DOMAIN d
           /\ "external_id" \in DOMAIN o
           /\ (o.scim_id = d.scim_id \/ o.external_id = d.external_id)

\* The indexes a DuplicateKeyError may name: the primary key and the two
\* unique indexes of ScimApiInviteDB.__init__.
ViolatedIndexes(d, others) ==
    {ix \in {"_id_", "unique-scimid", "unique-external-id"} :
        \E o \in others :
            \/ ix = "_id_" /\ o._id = d._id
            \/ /\ "external_id" \in DOMAIN d
               /\ "external_id" \in DOMAIN o
               /\ \/ ix = "unique-scimid" /\ o.scim_id = d.scim_id
                  \/ ix = "unique-external-id" /\ o.external_id = d.external_id}

\* The documents matching a filter on _id (and version).
ById(id) == {d \in coll : d._id = id}
ByTestDoc(t) == {d \in coll : d._id = t._id /\ d.version = t.version}

\* ------------------------------------------------------------- groups
\* What a request may ask a group to be (SCIMGroup): display names,
\* extension data, and member entries (value, $ref, display).
Names == {"A", "B"}
ExtData == {"d0", "d1"}
UserEntries == [value : {"u1"}, ref : {"Users"}, display : {"x", "y"}]
GroupEntries == [value : {"g1"}, ref : {"Groups"}, display : {"g"}]

\* Member lists name a member at most once.
MemberLists ==
    {ms \in SUBSET (UserEntries \cup GroupEntries) :
        \A m1, m2 \in ms : m1.value = m2.value => m1 = m2}

\* The desired states tried: every name and extension data without
\* members, and every member list under one name and extension data.
Desired ==
    [display_name : Names, members : {{}}, data : ExtData]
    \cup [display_name : {"A"}, members : MemberLists \ {{}}, data : {"d0"}]

\* GraphUser(identifier, display_name) and GraphGroup(identifier, display_name).
GraphUser(id, dn) == [kind |-> "user", identifier |-> id, display_name |-> dn]
GraphGroup(id, dn) == [identifier |-> id, display_name |-> dn, members |-> {}]

\* ScimApiGroup(extensions, display_name): the dataclass with its defaults.
ScimApiGroup(id, v, t, dn, data) ==
    [display_name |-> dn, group_id |-> id, scim_id |-> UUIDOf(id),
     version |-> v, created |-> t, last_modified |-> t,
     extensions |-> [data |-> data], graph |-> None]

\* Variant of GroupToDict that leaves the extension data out of the
\* document (the default is stored); C11 must fail with it.
GroupToDict_NoExtensions(o) ==
    [display_name |-> o.display_name, _id |-> o.group_id,
     scim_id |-> StrOf(o.scim_id), version |-> o.version,
     created |-> o.created, last_modified |-> o.last_modified,
     extensions |-> [data |-> "d0"]]

\* ScimApiGroup.to_dict: asdict, scim_id as a string, group_id as _id, and
\* the graph dropped.  display_name is the record's own field.
GroupToDict(o) ==
    [display_name |-> o.display_name, _id |-> o.group_id,
     scim_id |-> StrOf(o.scim_id), version |-> o.version,
     created |-> o.created, last_modified |-> o.last_modified,
     extensions |-> [data |-> o.extensions.data]]

\* ScimApiGroup.from_dict: the graph is not part of the document.
GroupFromDict(d) ==
    [display_name |-> d.display_name, group_id |-> d._id,
     scim_id |-> UUIDOf(d.scim_id), version |-> d.version,
     created |-> d.created, last_modified |-> d.last_modified,
     extensions |-> [data |-> d.extensions.data], graph |-> None]

\* graph.get_member_user / get_member_group: the member of that kind
\* with that identifier, or None.
GetMember(g, id, kind) ==
    LET s == {m \in g.members : m # None /\ m.kind = kind /\ m.identifier = id}
    IN  IF s = {} THEN None ELSE CHOOSE m \in s : TRUE

\* Variant of ResolveMember in which a member found with another label is
\* kept as it is and does not count as a change; C21 must fail with it.
ResolveMember_LabelKept(g, m) ==
    LET kind == IF m.ref = "Users" THEN "user" ELSE "group"
        update_member == GetMember(g, m.value, kind)
    IN  IF update_member = None
        THEN [member |-> IF kind = "user" THEN GraphUser(m.value, m.display)
                         ELSE GetMember(g, m.value, "group"),
              changed |-> TRUE]
        ELSE [member |-> update_member, changed |-> FALSE]

\* One turn of update_group's loop over scim_group.members: the member
\* that goes into the new list, and whether it counts as a change.
ResolveMember(g, m) ==
    LET kind == IF m.ref = "Users" THEN "user" ELSE "group"
        update_member == GetMember(g, m.value, kind)
    IN  IF update_member = None
        THEN [member |-> IF kind = "user" THEN GraphUser(m.value, m.display)
                         ELSE GetMember(g, m.value, "group"),
              changed |-> TRUE]
        ELSE IF update_member.display_name # m.display
        THEN [member |-> [update_member EXCEPT !.display_name = m.display],
              changed |-> TRUE]
        ELSE [member |-> update_member, changed |-> FALSE]

\* What set() compares graph members by: kind and identifier.
MemberKeys(ms) ==
    {IF m = None THEN None ELSE [kind |-> m.kind, identifier |-> m.identifier] :
        m \in ms}

\* Variant of UpdateGroupDiff that reports a change whatever it compared;
\* C9 must fail with it.
UpdateGroupDiff_AlwaysChanged(o, d) ==
    LET g == o.graph
        res == {ResolveMember(g, m) : m \in d.members}
        members == {r.member : r \in res}
        member_changed == \E r \in res : r.changed
        name_changed == g.display_name # d.display_name
        g1 == IF name_changed THEN [g EXCEPT !.display_name = d.display_name] ELSE g
        set_changed == member_changed \/ MemberKeys(g.members) # MemberKeys(members)
        g2 == IF set_changed THEN [g1 EXCEPT !.members = members] ELSE g1
        ext == [data |-> d.data]
        ext_changed == o.extensions # ext
    IN  [group |-> [o EXCEPT !.graph = g2,
                             !.extensions = IF ext_changed THEN ext ELSE @],
         changed |-> TRUE,
         name_changed |-> name_changed,
         set_changed |-> set_changed,
         ext_changed |-> ext_changed]

\* update_group up to "if changed": the record as changed in memory, and
\* the changed flag.  Only the graph's display_name is assigned.
UpdateGroupDiff(o, d) ==
    LET g == o.graph
        res == {ResolveMember(g, m) : m \in d.members}
        members == {r.member : r \in res}
        member_changed == \E r \in res : r.changed
        name_changed == g.display_name # d.display_name
        g1 == IF name_changed THEN [g EXCEPT !.display_name = d.display_name] ELSE g
        set_changed == member_changed \/ MemberKeys(g.members) # MemberKeys(members)
        g2 == IF set_changed THEN [g1 EXCEPT !.members = members] ELSE g1
        ext == [data |-> d.data]
        ext_changed == o.extensions # ext
    IN  [group |-> [o EXCEPT !.graph = g2,
                             !.extensions = IF ext_changed THEN ext ELSE @],
         changed |-> name_changed \/ set_changed \/ ext_changed,
         name_changed |-> name_changed,
         set_changed |-> set_changed,
         ext_changed |-> ext_changed]

\* ------------------------------------------------------------- initial
Init ==
    /\ coll = {}
    /\ graphdb = {}
    /\ now = 0
    /\ ids = 0
    /\ oids = 0
    /\ pc = [p \in Procs |-> "idle"]
    /\ op = [p \in Procs |-> "none"]
    /\ obj = [p \in Procs |-> None]
    /\ dict = [p \in Procs |-> None]
    /\ test_doc = [p \in Procs |-> None]
    /\ result = [p \in Procs |-> None]
    /\ ret = [p \in Procs |-> "none"]
    /\ wrote = [p \in Procs |-> <<>>]
    /\ seen = [p \in Procs |-> "none"]
    /\ want = [p \in Procs |-> None]
    /\ race = [v \in Versions |-> [begun |-> 0, committed |-> 0, unacked |-> 0, conflict |-> 0,
                                   other |-> 0, overlap |-> FALSE]]
    /\ hist = [i \in Ids |-> [versions |-> {}, n |-> 0, lm |-> 0]]
    /\ peak = [p \in Procs |-> 0]
    /\ events = {}
    /\ poll = [T |-> -1, got |-> {}]
    /\ overtaken = [p \in Procs |-> FALSE]

\* A caller enters an operation: the locals of its previous one are gone.
StartOp(p, name, w) ==
    /\ op' = [op EXCEPT ![p] = name]
    /\ ret' = [ret EXCEPT ![p] = "none"]
    /\ wrote' = [wrote EXCEPT ![p] = w]
    /\ dict' = [dict EXCEPT ![p] = None]
    /\ test_doc' = [test_doc EXCEPT ![p] = None]
    /\ result' = [result EXCEPT ![p] = None]
    /\ want' = [want EXCEPT ![p] = None]
    /\ seen' = [seen EXCEPT ![p] = "none"]

\* The clock advances.
Tick ==
    /\ now < MaxClock
    /\ now' = now + 1
    /\ UNCHANGED <<coll, graphdb, ids, oids, pc, op, obj, dict, test_doc,
                   result, ret, wrote, seen, want, race, hist, peak, events, poll, overtaken>>

\* ------------------------------------------------------------- invites
\* A caller constructs a new invite in memory.
NewInvite(p) ==
    /\ p \in Creators
    /\ pc[p] = "idle"
    /\ ids < MaxIds
    /\ oids < MaxVersion
    /\ \E ext \in ExternalIds :
         obj' = [obj EXCEPT ![p] = ScimApiInvite(ids + 1, oids + 1, now, ext)]
    /\ ids' = ids + 1
    /\ oids' = oids + 1
    /\ StartOp(p, "new", <<>>)
    /\ UNCHANGED <<coll, graphdb, now, overtaken, poll, events, peak, pc, race, hist>>

\* get_invite_by_scim_id: one read of the collection.
GetInvite(p) ==
    /\ pc[p] = "idle"
    /\ \E s \in 1..ids :
         LET docs == {d \in coll : d.scim_id = s}
         IN  obj' = [obj EXCEPT ![p] =
                        IF docs = {} THEN None
                        ELSE InviteFromDict(CHOOSE d \in docs : TRUE)]
    /\ StartOp(p, "get", <<>>)
    /\ UNCHANGED <<coll, graphdb, now, overtaken, poll, events, peak, ids, oids, pc, race, hist>>

\* remove: delete the document with the record's primary key.
Remove(p) ==
    /\ pc[p] = "idle"
    /\ obj[p] # None
    /\ coll' = coll \ ById(obj[p].invite_id)
    /\ StartOp(p, "remove", <<"remove">>)
    /\ UNCHANGED <<graphdb, now, overtaken, poll, events, peak, ids, oids, pc, obj, race, hist>>

\* -------------------------------------------------------------- users
\* ScimApiProfile(attributes=..., data=...): the profile as the record
\* holds it, and Profile(attributes=..., data=...): the profile as a request
\* or a response carries it.  The two are different types with the same
\* two fields.
ScimApiProfile(attributes, data) ==
    [type |-> "ScimApiProfile", attributes |-> attributes, data |-> data]
Profile(attributes, data) ==
    [type |-> "Profile", attributes |-> attributes, data |-> data]

\* to_dict of a profile of either type: its two fields.
ProfileToDict(pr) == [attributes |-> pr.attributes, data |-> pr.data]

\* ScimApiUser(...) as on_post constructs it: the fields of the request and
\* the default factories of the versioned record.
ScimApiUser(id, v, t, core, profiles) ==
    [user_id |-> id, scim_id |-> UUIDOf(id), external_id |-> core.external_id,
     version |-> v, created |-> t, last_modified |-> t,
     preferred_language |-> core.preferred_language, name |-> core.name,
     emails |-> core.emails, phone_numbers |-> core.phone_numbers,
     profiles |-> profiles]

\* ScimApiUser.to_dict: scim_id becomes a string, user_id becomes _id, each
\* profile becomes its dictionary.
UserToDict(o) ==
    [_id |-> o.user_id, scim_id |-> StrOf(o.scim_id),
     external_id |-> o.external_id, version |-> o.version,
     created |-> o.created, last_modified |-> o.last_modified,
     preferred_language |-> o.preferred_language, name |-> o.name,
     emails |-> o.emails, phone_numbers |-> o.phone_numbers,
     profiles |-> [k \in DOMAIN o.profiles |-> ProfileToDict(o.profiles[k])]]

\* ScimApiUser.from_dict: the inverse renaming and parsing.
UserFromDict(d) ==
    [user_id |-> d._id, scim_id |-> UUIDOf(d.scim_id),
     external_id |-> d.external_id, version |-> d.version,
     created |-> d.created, last_modified |-> d.last_modified,
     preferred_language |-> d.preferred_language, name |-> d.name,
     emails |-> d.emails, phone_numbers |-> d.phone_numbers,
     profiles |-> [k \in DOMAIN d.profiles |->
                      ScimApiProfile(d.profiles[k].attributes, d.profiles[k].data)]]

\* ------------------------------------------------------------ the save
\* to_dict of whichever record the caller holds.
ToDict(o) ==
    IF "invite_id" \in DOMAIN o THEN InviteToDict(o)
    ELSE IF "user_id" \in DOMAIN o THEN UserToDict(o)
    ELSE GroupToDict(o)

\* The operations of a group request.  Requests are stateless: the record
\* a request loaded is gone when its create_group or update_group is over.
GroupOps == {"create", "update"}

\* The user handlers that save through _save_user.
HandlerOps == {"post", "put"}

\* Variant of AfterSave in which update_group goes on to the graph store
\* whatever save returned; C8 must fail with it.
AfterSave_IgnoreResult(p, ack) ==
    IF op[p] = "update" THEN "graphsave"
    ELSE IF op[p] \in HandlerOps THEN "event"
    ELSE "idle"

\* _save_user: a DuplicateKeyError of save becomes a BadRequest, whose
\* detail depends on 'external-id' being in the error message; elsewhere
\* the DuplicateKeyError is what the caller of save gets.
SaveUserError(p, ix) ==
    IF op[p] \notin HandlerOps THEN "DuplicateKey"
    ELSE IF ix = "unique-external-id" THEN "BadRequest: externalID must be unique"
    ELSE "BadRequest: Duplicated key error"

\* Where save returns to.  update_group goes on to the graph store only
\* "if self.save(db_group)"; the user handlers go on to add_api_event
\* whatever save returned; create_group and a plain save are done.
AfterSave(p, ack) ==
    IF op[p] = "update" /\ ack THEN "graphsave"
    ELSE IF op[p] \in HandlerOps THEN "event"
    ELSE "idle"

\* History is kept of the saves of invites, which stay in a caller's hands
\* from one call to the next; a group request holds its record for one
\* create_group or update_group only.
Tracked(p) == op[p] \notin GroupOps \cup HandlerOps \cup {"add"}

\* History: is another caller inside a save begun from version v?
InSaveFrom(p, v) ==
    \E q \in Procs \ {p} :
        pc[q] \in {"replace", "find", "insert"} /\ test_doc[q].version = v

\* History: the store as a save finds it when it is called.
StoreHolds(id, v) ==
    IF ById(id) = {} THEN "absent"
    ELSE IF \E d \in ById(id) : d.version = v THEN "current"
    ELSE "stale"

\* Variant of SaveBeginEffect that mints no version: the document keeps the
\* version of the record; C4 must fail with it.
SaveBeginEffect_KeepVersion(p) ==
    /\ obj[p] # None
    /\ oids < MaxVersion
    /\ LET d == ToDict(obj[p])
       IN  /\ test_doc' = [test_doc EXCEPT ![p] =
                              [_id |-> d._id, version |-> obj[p].version]]
           /\ dict' = [dict EXCEPT ![p] = [d EXCEPT !.last_modified = now]]
    /\ oids' = oids + 1
    /\ race' = IF Tracked(p)
               THEN [race EXCEPT ![obj[p].version] =
                        [@ EXCEPT !.begun = @ + 1,
                                  !.overlap = @ \/ InSaveFrom(p, obj[p].version)]]
               ELSE race
    /\ seen' = [seen EXCEPT ![p] = StoreHolds(ToDict(obj[p])._id, obj[p].version)]
    /\ result' = [result EXCEPT ![p] = None]
    /\ pc' = [pc EXCEPT ![p] = "replace"]

\* Variant of SaveBeginEffect that stamps the document's created field
\* with the time of the save; C23 must fail with it.
SaveBeginEffect_NewCreated(p) ==
    /\ obj[p] # None
    /\ oids < MaxVersion
    /\ LET d == ToDict(obj[p])
       IN  /\ test_doc' = [test_doc EXCEPT ![p] =
                              [_id |-> d._id, version |-> obj[p].version]]
           /\ dict' = [dict EXCEPT ![p] =
                          [d EXCEPT !.version = oids + 1, !.last_modified = now,
                                    !.created = now]]
    /\ oids' = oids + 1
    /\ race' = IF Tracked(p)
               THEN [race EXCEPT ![obj[p].version] =
                        [@ EXCEPT !.begun = @ + 1,
                                  !.overlap = @ \/ InSaveFrom(p, obj[p].version)]]
               ELSE race
    /\ seen' = [seen EXCEPT ![p] = StoreHolds(ToDict(obj[p])._id, obj[p].version)]
    /\ result' = [result EXCEPT ![p] = None]
    /\ pc' = [pc EXCEPT ![p] = "replace"]

\* save, the first lines of its body: to_dict, the compare key from the
\* record as the caller holds it, a new ObjectId() version and utcnow().
SaveBeginEffect(p) ==
    /\ obj[p] # None
    /\ oids < MaxVersion
    /\ LET d == ToDict(obj[p])
       IN  /\ test_doc' = [test_doc EXCEPT ![p] =
                              [_id |-> d._id, version |-> obj[p].version]]
           /\ dict' = [dict EXCEPT ![p] =
                          [d EXCEPT !.version = oids + 1, !.last_modified = now]]
    /\ oids' = oids + 1
    /\ race' = IF Tracked(p)
               THEN [race EXCEPT ![obj[p].version] =
                        [@ EXCEPT !.begun = @ + 1,
                                  !.overlap = @ \/ InSaveFrom(p, obj[p].version)]]
               ELSE race
    /\ seen' = [seen EXCEPT ![p] = StoreHolds(ToDict(obj[p])._id, obj[p].version)]
    /\ result' = [result EXCEPT ![p] = None]
    /\ pc' = [pc EXCEPT ![p] = "replace"]

\* Variant of SaveFinishEffect that leaves the record in memory with its
\* old version and last_modified; C6 must fail with it.
SaveFinishEffect_StaleRecord(p, res, how) ==
    LET after == AfterSave(p, res.acknowledged)
    IN  /\ obj' = [obj EXCEPT ![p] =
                      IF op[p] \in GroupOps /\ after = "idle" THEN None ELSE @]
        /\ result' = [result EXCEPT ![p] = res]
        /\ ret' = [ret EXCEPT ![p] = IF res.acknowledged THEN "True" ELSE "False"]
        /\ pc' = [pc EXCEPT ![p] = after]
        /\ want' = [want EXCEPT ![p] = IF after = "idle" THEN None ELSE @]
        /\ wrote' = [wrote EXCEPT ![p] = Append(@, how)]
        /\ dict' = [dict EXCEPT ![p] = None]
        /\ test_doc' = [test_doc EXCEPT ![p] = None]
        /\ race' = IF Tracked(p)
                   THEN [race EXCEPT ![test_doc[p].version] =
                            [@ EXCEPT !.committed = @ + 1,
                                      !.unacked = IF res.acknowledged THEN @ ELSE @ + 1]]
                   ELSE race
        /\ hist' = IF Tracked(p)
                   THEN [hist EXCEPT ![dict[p]._id] =
                            [versions |-> @.versions \cup {dict[p].version},
                             n |-> @.n + 1,
                             lm |-> dict[p].last_modified]]
                   ELSE hist

\* The end of save after a write: the record takes the new version and
\* last_modified, and result.acknowledged is returned.
SaveFinishEffect(p, res, how) ==
    LET after == AfterSave(p, res.acknowledged)
    IN  /\ obj' = [obj EXCEPT ![p] =
                      IF op[p] \in GroupOps /\ after = "idle" THEN None
                      ELSE [@ EXCEPT !.version = dict[p].version,
                                     !.last_modified = dict[p].last_modified]]
        /\ result' = [result EXCEPT ![p] = res]
        /\ ret' = [ret EXCEPT ![p] = IF res.acknowledged THEN "True" ELSE "False"]
        /\ pc' = [pc EXCEPT ![p] = after]
        /\ want' = [want EXCEPT ![p] = IF after = "idle" THEN None ELSE @]
        /\ wrote' = [wrote EXCEPT ![p] = Append(@, how)]
        /\ dict' = [dict EXCEPT ![p] = None]
        /\ test_doc' = [test_doc EXCEPT ![p] = None]
        /\ race' = IF Tracked(p)
                   THEN [race EXCEPT ![test_doc[p].version] =
                            [@ EXCEPT !.committed = @ + 1,
                                      !.unacked = IF res.acknowledged THEN @ ELSE @ + 1]]
                   ELSE race
        /\ hist' = IF Tracked(p)
                   THEN [hist EXCEPT ![dict[p]._id] =
                            [versions |-> @.versions \cup {dict[p].version},
                             n |-> @.n + 1,
                             lm |-> dict[p].last_modified]]
                   ELSE hist

\* Variant of Raise in which a user handler goes on to add_api_event
\* although its save raised; C25 must fail with it.
Raise_ThenEvent(p, what) ==
    /\ ret' = [ret EXCEPT ![p] = what]
    /\ pc' = [pc EXCEPT ![p] = IF op[p] \in HandlerOps THEN "event" ELSE "idle"]
    /\ want' = [want EXCEPT ![p] = None]
    /\ obj' = [obj EXCEPT ![p] = IF op[p] \in GroupOps THEN None ELSE @]

\* An exception leaves the operation: nothing more is done by the caller.
Raise(p, what) ==
    /\ ret' = [ret EXCEPT ![p] = what]
    /\ pc' = [pc EXCEPT ![p] = "idle"]
    /\ want' = [want EXCEPT ![p] = None]
    /\ obj' = [obj EXCEPT ![p] = IF op[p] \in GroupOps THEN None ELSE @]

\* save raises: the record in memory keeps its old version.
SaveRaise(p, what) ==
    /\ Raise(p, what)
    /\ dict' = [dict EXCEPT ![p] = None]
    /\ test_doc' = [test_doc EXCEPT ![p] = None]
    /\ race' = IF Tracked(p)
               THEN [race EXCEPT ![test_doc[p].version] =
                        IF what = "Conflict" THEN [@ EXCEPT !.conflict = @ + 1]
                        ELSE [@ EXCEPT !.other = @ + 1]]
               ELSE race

\* ScimApiInviteDB.save is called on the record the caller holds.
InviteSave(p) ==
    /\ pc[p] = "idle"
    /\ SaveBeginEffect(p)
    /\ op' = [op EXCEPT ![p] = "save"]
    /\ ret' = [ret EXCEPT ![p] = "none"]
    /\ wrote' = [wrote EXCEPT ![p] = <<>>]
    /\ UNCHANGED <<coll, graphdb, now, overtaken, poll, events, peak, ids, obj, want, hist>>

\* Variant of SaveReplace with upsert=True: a replace that matches nothing
\* stores the document itself; C22 must fail with it.
SaveReplace_Upsert(p) ==
    /\ pc[p] = "replace"
    /\ LET m == ByTestDoc(test_doc[p])
       IN  \E ack \in BOOLEAN :
             IF DuplicateKey(dict[p], coll \ m)
             THEN /\ \E ix \in ViolatedIndexes(dict[p], coll \ m) :
                       SaveRaise(p, SaveUserError(p, ix))
                  /\ UNCHANGED <<coll, result, wrote, hist>>
             ELSE /\ coll' = (coll \ m) \cup {dict[p]}
                  /\ SaveFinishEffect(p, [modified_count |-> Cardinality(m),
                                          acknowledged |-> ack], "replace")
    /\ UNCHANGED <<graphdb, now, overtaken, poll, events, peak, ids, oids, op, seen>>

\* replace_one(test_doc, dict, upsert=False): atomic in the store.  The
\* store answers with modified_count and with acknowledged, which is the
\* write concern in force for the call.
SaveReplace(p) ==
    /\ pc[p] = "replace"
    /\ LET m == ByTestDoc(test_doc[p])
       IN  \E ack \in BOOLEAN :
             IF m = {}
             THEN /\ result' = [result EXCEPT ![p] =
                                   [modified_count |-> 0, acknowledged |-> ack]]
                  /\ pc' = [pc EXCEPT ![p] = "find"]
                  /\ UNCHANGED <<coll, obj, ret, wrote, want, hist, dict,
                                 test_doc, race>>
             ELSE IF DuplicateKey(dict[p], coll \ m)
             THEN /\ \E ix \in ViolatedIndexes(dict[p], coll \ m) :
                       SaveRaise(p, SaveUserError(p, ix))
                  /\ UNCHANGED <<coll, result, wrote, hist>>
             ELSE /\ coll' = (coll \ m) \cup {dict[p]}
                  /\ SaveFinishEffect(p, [modified_count |-> 1,
                                          acknowledged |-> ack], "replace")
    /\ UNCHANGED <<graphdb, now, overtaken, poll, events, peak, ids, oids, op, seen>>

\* Variant of SaveFind that takes a missing document for a conflict too;
\* C3 must fail with it.
SaveFind_AlwaysConflict(p) ==
    /\ pc[p] = "find"
    /\ SaveRaise(p, "Conflict")
    /\ UNCHANGED <<coll, graphdb, now, overtaken, poll, events, peak, ids, oids, op, result, wrote, seen, hist>>

\* modified_count == 0: find_one({'_id': id}); a document means the record
\* is out of sync (RuntimeError), none means this is a first insert.
SaveFind(p) ==
    /\ pc[p] = "find"
    /\ IF ById(test_doc[p]._id) # {}
       THEN SaveRaise(p, "Conflict")
       ELSE /\ pc' = [pc EXCEPT ![p] = "insert"]
            /\ UNCHANGED <<obj, ret, want, dict, test_doc, race>>
    /\ UNCHANGED <<coll, graphdb, now, overtaken, poll, events, peak, ids, oids, op, result, wrote, seen, hist>>

\* insert_one(dict): atomic in the store; a duplicate key is an error.
SaveInsert(p) ==
    /\ pc[p] = "insert"
    /\ IF DuplicateKey(dict[p], coll)
       THEN /\ \E ix \in ViolatedIndexes(dict[p], coll) :
                 SaveRaise(p, SaveUserError(p, ix))
            /\ UNCHANGED <<coll, result, wrote, hist>>
       ELSE /\ coll' = coll \cup {dict[p]}
            /\ SaveFinishEffect(p, result[p], "insert")
    /\ UNCHANGED <<graphdb, now, overtaken, poll, events, peak, ids, oids, op, seen>>

\* ------------------------------------------------------ group operations
\* graphdb.get_group(identifier): the stored graph group, or None.
GraphGet(id) ==
    LET s == {g \in graphdb : g.identifier = id}
    IN  IF s = {} THEN None ELSE CHOOSE g \in s : TRUE

\* Variant of CreateGroup that does not store the graph group before the
\* document is saved; C29 must fail with it.
CreateGroup_NoGraph(p) ==
    /\ p \in Creators
    /\ pc[p] = "idle"
    /\ ids < MaxIds
    /\ oids < MaxVersion
    /\ \E d \in Desired :
         LET group == ScimApiGroup(ids + 1, oids + 1, now, d.display_name, d.data)
             graph == GraphGroup(StrOf(group.scim_id), d.display_name)
         IN  obj' = [obj EXCEPT ![p] = [group EXCEPT !.graph = graph]]
    /\ ids' = ids + 1
    /\ oids' = oids + 1
    /\ StartOp(p, "create", <<>>)
    /\ pc' = [pc EXCEPT ![p] = "begin"]
    /\ UNCHANGED <<coll, graphdb, now, overtaken, poll, events, peak, race, hist>>

\* create_group up to and including graphdb.save(group.graph): the record
\* and its graph group are constructed and the graph group is stored.
CreateGroup(p) ==
    /\ p \in Creators
    /\ pc[p] = "idle"
    /\ ids < MaxIds
    /\ oids < MaxVersion
    /\ \E d \in Desired :
         LET group == ScimApiGroup(ids + 1, oids + 1, now, d.display_name, d.data)
             graph == GraphGroup(StrOf(group.scim_id), d.display_name)
         IN  /\ obj' = [obj EXCEPT ![p] = [group EXCEPT !.graph = graph]]
             /\ graphdb' = {g \in graphdb : g.identifier # graph.identifier}
                               \cup {graph}
    /\ ids' = ids + 1
    /\ oids' = oids + 1
    /\ StartOp(p, "create", <<"graph">>)
    /\ pc' = [pc EXCEPT ![p] = "begin"]
    /\ UNCHANGED <<coll, now, overtaken, poll, events, peak, race, hist>>

\* Variant of SaveBegin in which update_group stores the graph group before
\* it saves the document; C7 must fail with it.
SaveBegin_GraphFirst(p) ==
    /\ pc[p] = "begin"
    /\ SaveBeginEffect(p)
    /\ graphdb' = IF op[p] = "update"
                  THEN {x \in graphdb : x.identifier # obj[p].graph.identifier}
                           \cup {[obj[p].graph EXCEPT !.members = @ \ {None}]}
                  ELSE graphdb
    /\ wrote' = [wrote EXCEPT ![p] = IF op[p] = "update" THEN Append(@, "graph") ELSE @]
    /\ UNCHANGED <<coll, now, overtaken, poll, events, peak, ids, op, obj, ret, want, hist>>

\* ScimApiGroupDB.save as called by create_group and update_group: its
\* first lines, up to the read of the clock.
SaveBegin(p) ==
    /\ pc[p] = "begin"
    /\ SaveBeginEffect(p)
    /\ UNCHANGED <<coll, graphdb, now, overtaken, poll, events, peak, ids, op, obj, ret, wrote, want, hist>>

\* get_group_by_scim_id, the read of the document.
GetGroup(p) ==
    /\ pc[p] = "idle"
    /\ \E s \in 1..ids :
         LET docs == {d \in coll : d.scim_id = s}
         IN  IF docs = {}
             THEN /\ obj' = [obj EXCEPT ![p] = None]
                  /\ UNCHANGED pc
             ELSE /\ obj' = [obj EXCEPT ![p] = GroupFromDict(CHOOSE d \in docs : TRUE)]
                  /\ pc' = [pc EXCEPT ![p] = "loadgraph"]
    /\ StartOp(p, "get", <<>>)
    /\ UNCHANGED <<coll, graphdb, now, overtaken, poll, events, peak, ids, oids, race, hist>>

\* get_group_by_scim_id, the read of the graph store that follows.
LoadGraph(p) ==
    /\ pc[p] = "loadgraph"
    /\ obj' = [obj EXCEPT ![p].graph = GraphGet(StrOf(obj[p].scim_id))]
    /\ pc' = [pc EXCEPT ![p] = "idle"]
    /\ UNCHANGED <<coll, graphdb, now, overtaken, poll, events, peak, ids, oids, op, dict, test_doc, result,
                   ret, wrote, seen, want, race, hist, peak>>

\* update_group up to "if changed": the diff of the desired state against
\* the record the caller loaded, made in memory.  Without a change the
\* record is returned as it is.
UpdateGroup(p) ==
    /\ pc[p] = "idle"
    /\ obj[p] # None
    /\ "group_id" \in DOMAIN obj[p]
    /\ op' = [op EXCEPT ![p] = "update"]
    /\ wrote' = [wrote EXCEPT ![p] = <<>>]
    /\ dict' = [dict EXCEPT ![p] = None]
    /\ test_doc' = [test_doc EXCEPT ![p] = None]
    /\ result' = [result EXCEPT ![p] = None]
    /\ seen' = [seen EXCEPT ![p] = "none"]
    /\ \E d \in Desired :
         IF obj[p].graph = None
         THEN /\ obj' = [obj EXCEPT ![p] = None]
              /\ ret' = [ret EXCEPT ![p] = "Error"]
              /\ UNCHANGED <<pc, want>>
         ELSE LET r == UpdateGroupDiff(obj[p], d)
              IN  /\ obj' = [obj EXCEPT ![p] = r.group]
                  /\ want' = [want EXCEPT ![p] =
                                 IF r.changed
                                 THEN [desired |-> d, group |-> obj[p].graph.identifier,
                                       renamed |-> r.name_changed,
                                       set_changed |-> r.set_changed,
                                       ext_changed |-> r.ext_changed]
                                 ELSE None]
                  /\ ret' = [ret EXCEPT ![p] = IF r.changed THEN "none" ELSE "unchanged"]
                  /\ pc' = [pc EXCEPT ![p] = IF r.changed THEN "begin" ELSE "idle"]
    /\ UNCHANGED <<coll, graphdb, now, overtaken, poll, events, peak, ids, oids, race, hist>>

\* Variant of GraphSave in which a failure of the graph store is not
\* passed on: the call returns as if the group had been stored; C18 must
\* fail with it.
GraphSave_Swallowed(p) ==
    /\ pc[p] = "graphsave"
    /\ LET g == obj[p].graph
           saved == [g EXCEPT !.members = @ \ {None}]
       IN  \/ /\ ret' = [ret EXCEPT ![p] = "returned"]
              /\ pc' = [pc EXCEPT ![p] = "idle"]
              /\ obj' = [obj EXCEPT ![p] = None]
              /\ UNCHANGED <<graphdb, wrote, want>>
              /\ overtaken' = [overtaken EXCEPT ![p] = FALSE]
           \/ /\ graphdb' = {x \in graphdb : x.identifier # g.identifier}
                                \cup {saved}
              /\ obj' = [obj EXCEPT ![p] = None]
              /\ wrote' = [wrote EXCEPT ![p] = Append(@, "graph")]
              /\ ret' = [ret EXCEPT ![p] = "returned"]
              /\ pc' = [pc EXCEPT ![p] = "idle"]
              /\ want' = [want EXCEPT ![p] = None]
              /\ overtaken' = [q \in Procs |->
                    /\ q # p
                    /\ \/ overtaken[q]
                       \/ /\ pc[q] = "graphsave"
                          /\ obj[q].graph.identifier = g.identifier
                          /\ obj[q].version < obj[p].version]
    /\ UNCHANGED <<coll, now, poll, events, peak, ids, oids, op, dict, test_doc, result, seen, race,
                   hist>>

\* update_group, "db_group.graph = self.graphdb.save(db_group.graph)".  The
\* graph store writes a group in one transaction, or fails and stores
\* nothing: the call is in no try block, so the exception leaves
\* update_group.  What the graph store does with a member that is None is
\* not this repository's code: it either fails or stores the real members.
\* The caller that was failed remembers what it had asked for.
GraphSave(p) ==
    /\ pc[p] = "graphsave"
    /\ LET g == obj[p].graph
           saved == [g EXCEPT !.members = @ \ {None}]
       IN  \/ /\ ret' = [ret EXCEPT ![p] = "GraphError"]
              /\ pc' = [pc EXCEPT ![p] = "idle"]
              /\ obj' = [obj EXCEPT ![p] = None]
              /\ UNCHANGED <<graphdb, wrote, want>>
              /\ overtaken' = [overtaken EXCEPT ![p] = FALSE]
           \/ /\ graphdb' = {x \in graphdb : x.identifier # g.identifier}
                                \cup {saved}
              /\ obj' = [obj EXCEPT ![p] = None]
              /\ wrote' = [wrote EXCEPT ![p] = Append(@, "graph")]
              /\ ret' = [ret EXCEPT ![p] = "returned"]
              /\ pc' = [pc EXCEPT ![p] = "idle"]
              /\ want' = [want EXCEPT ![p] = None]
              /\ overtaken' = [q \in Procs |->
                    /\ q # p
                    /\ \/ overtaken[q]
                       \/ /\ pc[q] = "graphsave"
                          /\ obj[q].graph.identifier = g.identifier
                          /\ obj[q].version < obj[p].version]
    /\ UNCHANGED <<coll, now, poll, events, peak, ids, oids, op, dict, test_doc, result, seen, race,
                   hist>>

\* -------------------------------------------------- the invite collection
NextInvite ==
    \/ Tick
    \/ \E p \in Procs : NewInvite(p)
    \/ \E p \in Procs : GetInvite(p)
    \/ \E p \in Procs : InviteSave(p)
    \/ \E p \in Procs : SaveReplace(p)
    \/ \E p \in Procs : SaveFind(p)
    \/ \E p \in Procs : SaveInsert(p)
    \/ \E p \in Procs : Remove(p)

SpecInvite == Init /\ [][NextInvite]_vars

\* ----------------------------------------------- the group collection
\* The clock stands still here: no step of create_group or update_group
\* depends on what utcnow() returns.
NextGroup ==
    \/ \E p \in Procs : CreateGroup(p)
    \/ \E p \in Procs : GetGroup(p)
    \/ \E p \in Procs : LoadGraph(p)
    \/ \E p \in Procs : UpdateGroup(p)
    \/ \E p \in Procs : SaveBegin(p)
    \/ \E p \in Procs : SaveReplace(p)
    \/ \E p \in Procs : SaveFind(p)
    \/ \E p \in Procs : SaveInsert(p)
    \/ \E p \in Procs : GraphSave(p)

SpecGroup == Init /\ [][NextGroup]_vars

\* =================================================== the save protocol
SavePcs == {"replace", "find", "insert"}

\* A save (not a group request) that is over, and how it ended.
SaveOver(p) == op[p] = "save" /\ pc[p] = "idle" /\ ret[p] # "none"
Committed(p) == ret[p] \in {"True", "False"}

\* C1: when two save calls on one record run concurrently from the same
\* (internal_id, version) pre-image, exactly one of them commits and the
\* other fails with Conflict: never both commit, never both fail, and the
\* loser never fails with another error.  (Stated for the pre-images from
\* which exactly two saves were begun, overlapping in time, both now over,
\* every write of theirs acknowledged by the store.)
C1_ExactlyOneCommits ==
    \A v \in Versions :
        (/\ race[v].begun = 2
         /\ race[v].overlap
         /\ race[v].unacked = 0
         /\ race[v].committed + race[v].conflict + race[v].other = 2)
        => (race[v].committed = 1 /\ race[v].conflict = 1)

\* C2: a save of a record whose internal_id is in the store with a version
\* other than the one the caller holds always fails with Conflict and
\* writes nothing.
C2_StaleSaveConflicts ==
    \A p \in Procs :
        (SaveOver(p) /\ seen[p] = "stale")
        => (ret[p] = "Conflict" /\ wrote[p] = <<>>)

\* C3 as claimed: a save of a record whose internal_id is not in the store
\* always inserts the document and never reports Conflict.
C3_AbsentSaveInserts ==
    \A p \in Procs :
        (SaveOver(p) /\ seen[p] = "absent")
        => (Committed(p) /\ wrote[p] = <<"insert">>)

\* C3 as amended: a save whose existence check (find_one) finds no document
\* with the record's internal_id does not report Conflict but goes on to
\* insert; and its insert_one either stores the document carrying the
\* newly minted version or is rejected with a duplicate-key error, which
\* happens exactly when the store holds a duplicate key by then.
C3_AbsentAtCheckInserts ==
    [][\A p \in Procs :
         /\ (pc[p] = "find" /\ pc'[p] # "find" /\ ById(test_doc[p]._id) = {})
            => (pc'[p] = "insert" /\ ret'[p] = "none" /\ coll' = coll)
         /\ (pc[p] = "insert" /\ pc'[p] # "insert")
            => IF DuplicateKey(dict[p], coll)
               THEN ret'[p] = "DuplicateKey" /\ coll' = coll
               ELSE /\ Committed(p)'
                    /\ coll' = coll \cup {dict[p]}
                    /\ dict[p].version # test_doc[p].version]_vars

\* A save found no document at its existence check and inserted.
C3_Witness ==
    \E p \in Procs :
        /\ SaveOver(p) /\ Committed(p) /\ wrote[p] = <<"insert">>
        /\ \E d \in coll : d.version = obj[p].version

\* C4: after N successful saves of one record it has carried N pairwise
\* distinct versions: each save stores a version minted in that call, which
\* differs from the version it replaces and from every earlier version of
\* the record, and is not the one the caller's record held.
C4_VersionsDistinct ==
    /\ \A i \in Ids : Cardinality(hist[i].versions) = hist[i].n
    /\ \A d \in coll : d.version \in hist[d._id].versions
    /\ \A p \in Procs :
         pc[p] \in SavePcs
         => /\ dict[p].version \notin hist[dict[p]._id].versions
            /\ dict[p].version # test_doc[p].version
            /\ \A q \in Procs : obj[q] # None => obj[q].version # dict[p].version

\* One record was saved three times.
C4_Witness == \E i \in Ids : hist[i].n >= 3

\* C5: the stored last_modified of a record never decreases from one
\* successful save to the next, whichever callers made them.
C5_LastModifiedMonotone ==
    [][\A i \in Ids :
         (hist[i].n > 0 /\ hist'[i].n > hist[i].n) => hist'[i].lm >= hist[i].lm]_vars

\* C6: whenever save returns, a document carrying the newly minted version
\* and last_modified was written by that call, the caller's record holds
\* those same two values, and the value returned is the acknowledgement the
\* store gave for the call.
C6_CommittedMeansWritten ==
    [][\A p \in Procs :
         (op[p] = "save" /\ pc[p] \in SavePcs /\ pc'[p] = "idle" /\ Committed(p)')
         => /\ dict[p] \in coll'
            /\ dict[p] \notin coll
            /\ dict[p].version # test_doc[p].version
            /\ obj'[p].version = dict[p].version
            /\ obj'[p].last_modified = dict[p].last_modified
            /\ InviteToDict(obj'[p]) = dict[p]
            /\ (ret'[p] = "True") = result'[p].acknowledged
            /\ Len(wrote'[p]) = 1
            /\ (wrote'[p][1] = "replace") = (result'[p].modified_count = 1)]_vars

\* A save returned true after replacing the stored document.
C6_Witness ==
    \E p \in Procs :
        /\ SaveOver(p) /\ ret[p] = "True" /\ wrote[p] = <<"replace">>
        /\ InviteToDict(obj[p]) \in coll

\* ================================================== the group requests
Range(w) == {w[k] : k \in 1..Len(w)}
DocWrites == {"replace", "insert"}

\* In a list of writes, every graph-store write comes after a document write.
GraphAfterDoc(w) ==
    \A k \in 1..Len(w) :
        w[k] = "graph" => \E j \in 1..(k - 1) : w[j] \in DocWrites

CommitFailures == {"Conflict", "DuplicateKey", "False"}

\* C8: in update_group, if the document-store commit fails (save raises, or
\* returns false), the call makes no write to the graph store: the graph
\* store changes in an update_group only at its graphdb.save, which is
\* reached only after save returned true.
C8_FailedCommitNoGraphWrite ==
    [][\A p \in Procs :
         (op[p] = "update" /\ pc[p] # "idle" /\ pc'[p] # pc[p])
         => /\ graphdb' # graphdb
               => (pc[p] = "graphsave" /\ ret[p] = "True"
                   /\ Range(wrote[p]) \cap DocWrites # {})
            /\ ret'[p] \in CommitFailures
               => (graphdb' = graphdb /\ pc'[p] = "idle"
                   /\ "graph" \notin Range(wrote'[p]))]_vars

\* An update_group lost the race for the document and was told Conflict.
C8_Witness ==
    \E p \in Procs :
        /\ op[p] = "update" /\ pc[p] = "idle" /\ ret[p] = "Conflict"
        /\ \E q \in Procs \ {p} : op[q] = "update" /\ "graph" \in Range(wrote[q])

\* The graph member a member entry of a request stands for.
EntryMember(m) ==
    [kind |-> IF m.ref = "Users" THEN "user" ELSE "group",
     identifier |-> m.value, display_name |-> m.display]

\* The desired state is the state of the record as loaded: same display
\* name, same members with the same labels, same extension data.
Identical(d, o) ==
    /\ d.display_name = o.graph.display_name
    /\ {EntryMember(m) : m \in d.members} = o.graph.members
    /\ d.data = o.extensions.data

\* C9: update_group with a desired state identical to the stored state
\* writes neither store and returns the record with version and
\* last_modified unchanged: a call that goes on to save was given a
\* different state, and a call that found no change left everything as
\* it was.
C9_NoOpUpdateWritesNothing ==
    [][\A p \in Procs :
         (pc[p] = "idle" /\ op'[p] = "update")
         => /\ pc'[p] = "begin" => ~Identical(want'[p].desired, obj[p])
            /\ (ret'[p] = "unchanged" /\ ret[p] # "unchanged")
               => /\ coll' = coll
                  /\ graphdb' = graphdb
                  /\ obj'[p] = obj[p]
                  /\ wrote'[p] = <<>>
                  /\ pc'[p] = "idle"]_vars

\* An update_group on a group with a member found nothing to change.
C9_Witness ==
    \E p \in Procs :
        /\ op[p] = "update" /\ ret[p] = "unchanged" /\ pc[p] = "idle"
        /\ obj[p].graph.members # {}
        /\ GroupToDict(obj[p]) \in coll

\* C10: after a successful update_group whose desired display name differs
\* from the stored one, the display_name of the group's document is the
\* desired display name.
C10_DocumentTakesDisplayName ==
    [][\A p \in Procs :
         (pc[p] = "graphsave" /\ ret'[p] = "returned" /\ want[p].renamed)
         => \A d \in coll' :
              (d._id = obj[p].group_id /\ d.version = obj[p].version)
              => d.display_name = want[p].desired.display_name]_vars

\* The desired members are the members the record was loaded with.
SameMembers(d, o) == {EntryMember(m) : m \in d.members} = o.graph.members

\* C11: the document an update_group commits carries the desired extension
\* data, and still does when the call returns if no later write replaced
\* it; and a call whose desired extension data is what the record was
\* loaded with goes on to save only because the display name or the
\* members differ.
C11_ExtensionDataStored ==
    [][\A p \in Procs :
         /\ (op[p] = "update" /\ pc[p] \in SavePcs /\ ret'[p] = "True")
            => /\ dict[p] \in coll'
               /\ dict[p].extensions.data = want[p].desired.data
         /\ (pc[p] = "graphsave" /\ ret'[p] = "returned")
            => \A c \in coll' :
                 (c._id = obj[p].group_id /\ c.version = obj[p].version)
                 => c.extensions.data = want[p].desired.data
         /\ (pc[p] = "idle" /\ op'[p] = "update" /\ pc'[p] = "begin"
             /\ want'[p].desired.data = obj[p].extensions.data)
            => /\ ~want'[p].ext_changed
               /\ ~(want'[p].desired.display_name = obj[p].graph.display_name
                    /\ SameMembers(want'[p].desired, obj[p]))]_vars

\* An update_group that changed nothing but the extension data wrote the
\* document and is about to store the graph group.
C11_Witness ==
    \E p \in Procs :
        /\ pc[p] = "graphsave" /\ want[p].ext_changed
        /\ ~want[p].renamed /\ ~want[p].set_changed
        /\ \E c \in coll : /\ c.version = obj[p].version
                            /\ c.extensions.data = want[p].desired.data
                            /\ c.extensions.data # "d0"

\* C12: after a successful update_group the graph-store group's members
\* are exactly the members named in the desired state, by kind and
\* identifier, for user-type and group-type members alike.
C12_GraphMembersAreDesired ==
    [][\A p \in Procs :
         (pc[p] = "graphsave" /\ ret'[p] = "returned")
         => \A g \in graphdb' :
              g.identifier = obj[p].graph.identifier
              => MemberKeys(g.members)
                   = MemberKeys({EntryMember(m) : m \in want[p].desired.members})]_vars

\* ============================================================== queries
\* How many documents the collection of a query ever gets.
MaxDocs == 3

\* The largest limit and the largest skip a query is given.
MaxLimit == 2
MaxSkip == 2

\* The callers that query.
Searchers == {"p2"}

\* SCIM filter operators a request may carry.
Operators == {"gt", "ge", "lt", "eq"}

\* Optional[int]: the empty set is None, {n} is n.
Limits == {{}} \cup {{n} : n \in 1..MaxLimit}
Skips == {{}} \cup {{n} : n \in 0..MaxSkip}
ValueOf(x) == CHOOSE n \in x : TRUE

\* Variant of MongoOperator that knows 'lt' as well; C16 must fail with it.
MongoOperator_AlsoLt(operator) ==
    IF operator = "gt" THEN "$gt"
    ELSE IF operator = "ge" THEN "$gte"
    ELSE IF operator = "lt" THEN "$lt"
    ELSE NoneStr

\* {'gt': '$gt', 'ge': '$gte'}.get(operator)
MongoOperator(operator) ==
    IF operator = "gt" THEN "$gt"
    ELSE IF operator = "ge" THEN "$gte"
    ELSE NoneStr

\* Variant of Matches in which $gt lets the threshold itself through; C17
\* must fail with it.
Matches_GtAsGte(d, spec) == d.last_modified >= spec.value

\* The store's evaluation of {'last_modified': {mongo_operator: value}}.
Matches(d, spec) ==
    IF spec.mongo_operator = "$gt" THEN d.last_modified > spec.value
    ELSE d.last_modified >= spec.value
Matching(c, spec) == {d \in c : Matches(d, spec)}

\* How many documents a cursor over n matches gives after skip and limit.
PageSize(n, limit, skip) ==
    LET s == IF skip = {} THEN 0 ELSE ValueOf(skip)
        rest == IF n > s THEN n - s ELSE 0
    IN  IF limit = {} \/ rest < ValueOf(limit) THEN rest ELSE ValueOf(limit)

\* The pages the store may return: the query has no sort, so any matches
\* of the right number.
Pages(m, limit, skip) ==
    {pg \in SUBSET m : Cardinality(pg) = PageSize(Cardinality(m), limit, skip)}

\* Variant of CorrectTotal that also recomputes the total of a full page;
\* C13 must fail with it.
CorrectTotal_FullPageToo(total_count, num_docs, limit, skip) ==
    IF limit = {} \/ num_docs <= ValueOf(limit)
    THEN num_docs + (IF skip # {} THEN ValueOf(skip) ELSE 0)
    ELSE total_count

\* _get_documents_and_count_by_filter, the correction of total_count.
CorrectTotal(total_count, num_docs, limit, skip) ==
    IF limit = {} \/ num_docs < ValueOf(limit)
    THEN num_docs + (IF skip # {} THEN ValueOf(skip) ELSE 0)
    ELSE total_count

\* external_id of the i-th document a writer stores.
ExtNames == <<"e1", "e2", "e3", "e4", "e5", "e6">>

\* History: the most matching documents seen during the queries in flight.
PeakAfter(c) ==
    [p \in Procs |->
        IF pc[p] \in {"count", "fetch"}
        THEN LET n == Cardinality(Matching(c, want[p].spec))
             IN  IF n > peak[p] THEN n ELSE peak[p]
        ELSE peak[p]]

\* Some caller's save inserts a new document (insert_one).
StoreInsert ==
    /\ ids < MaxDocs
    /\ LET d == InviteToDict(ScimApiInvite(ids + 1, ids + 1, now, ExtNames[ids + 1]))
       IN  /\ ~DuplicateKey(d, coll)
           /\ coll' = coll \cup {d}
           /\ peak' = PeakAfter(coll \cup {d})
    /\ ids' = ids + 1
    /\ UNCHANGED <<graphdb, now, overtaken, poll, events, oids, pc, op, obj, dict, test_doc, result,
                   ret, wrote, seen, want, race, hist>>

\* Some caller removes a document (remove).
StoreRemove ==
    /\ \E d \in coll : coll' = coll \ {d}
    /\ UNCHANGED <<graphdb, now, overtaken, poll, events, peak, ids, oids, pc, op, obj, dict, test_doc,
                   result, ret, wrote, seen, want, race, hist>>

\* A request is served by a thread of its own: a searcher serves one.
Fresh(p) == p \in Searchers /\ pc[p] = "idle" /\ op[p] = "none"

\* A query begins: the locals of the caller's previous operation are gone.
StartQuery(p, name, w) ==
    /\ op' = [op EXCEPT ![p] = name]
    /\ want' = [want EXCEPT ![p] = w]
    /\ result' = [result EXCEPT ![p] = None]
    /\ wrote' = [wrote EXCEPT ![p] = <<>>]
    /\ obj' = [obj EXCEPT ![p] = None]

\* get_invites_by_last_modified up to the call of
\* _get_documents_and_count_by_filter, which it makes without
\* raise_on_missing: the default, True, applies.
FindByLastModified(p) ==
    /\ Fresh(p)
    /\ \E operator \in Operators :
         LET mongo_operator == MongoOperator(operator)
         IN  IF mongo_operator = NoneStr
             THEN /\ StartQuery(p, "by_last_modified", [operator |-> operator])
                  /\ ret' = [ret EXCEPT ![p] = "InvalidFilterOperator"]
                  /\ UNCHANGED <<pc, peak>>
             ELSE \E value \in 0..MaxClock, limit \in Limits, skip \in Skips :
                  LET spec == [mongo_operator |-> mongo_operator, value |-> value]
                  IN  /\ StartQuery(p, "by_last_modified",
                                    [operator |-> operator, spec |-> spec,
                                     limit |-> limit, skip |-> skip,
                                     raise_on_missing |-> TRUE])
                      /\ ret' = [ret EXCEPT ![p] = "none"]
                      /\ pc' = [pc EXCEPT ![p] = "count"]
                      /\ peak' = [peak EXCEPT ![p] = Cardinality(Matching(coll, spec))]
    /\ UNCHANGED <<coll, graphdb, now, overtaken, poll, events, ids, oids, dict, test_doc, seen, race, hist>>

\* _get_documents_and_count_by_filter called with raise_on_missing given.
FindAndCount(p) ==
    /\ Fresh(p)
    /\ \E mongo_operator \in {"$gt", "$gte"}, value \in 0..MaxClock,
          limit \in Limits, skip \in Skips, raise_on_missing \in BOOLEAN :
         LET spec == [mongo_operator |-> mongo_operator, value |-> value]
         IN  /\ StartQuery(p, "find_and_count",
                           [operator |-> NoneStr, spec |-> spec, limit |-> limit,
                            skip |-> skip, raise_on_missing |-> raise_on_missing])
             /\ peak' = [peak EXCEPT ![p] = Cardinality(Matching(coll, spec))]
    /\ ret' = [ret EXCEPT ![p] = "none"]
    /\ pc' = [pc EXCEPT ![p] = "count"]
    /\ UNCHANGED <<coll, graphdb, now, overtaken, poll, events, ids, oids, dict, test_doc, seen, race, hist>>

\* total_count = self.db_count(spec=spec)
DbCount(p) ==
    /\ pc[p] = "count"
    /\ result' = [result EXCEPT ![p] =
                     [total_count |-> Cardinality(Matching(coll, want[p].spec))]]
    /\ wrote' = [wrote EXCEPT ![p] = Append(@, "count")]
    /\ pc' = [pc EXCEPT ![p] = "fetch"]
    /\ UNCHANGED <<coll, graphdb, now, overtaken, poll, events, peak, ids, oids, op, obj, dict, test_doc,
                   ret, seen, want, race, hist>>

\* _get_documents_by_filter and the rest of the call: with no matching
\* document and raise_on_missing, DocumentDoesNotExist; otherwise the page,
\* the corrected total, and for the invite query from_dict of each document.
Fetch(p) ==
    /\ pc[p] = "fetch"
    /\ LET w == want[p]
           m == Matching(coll, w.spec)
       IN  IF m = {} /\ w.raise_on_missing
           THEN /\ ret' = [ret EXCEPT ![p] = "DocumentDoesNotExist"]
                /\ result' = [result EXCEPT ![p] = None]
           ELSE /\ \E docs \in Pages(m, w.limit, w.skip) :
                     result' = [result EXCEPT ![p] =
                        [docs |-> IF op[p] = "find_and_count" THEN docs
                                  ELSE {InviteFromDict(x) : x \in docs},
                         total_count |-> CorrectTotal(result[p].total_count,
                                                      Cardinality(docs), w.limit, w.skip)]]
                /\ ret' = [ret EXCEPT ![p] = "returned"]
    /\ wrote' = [wrote EXCEPT ![p] = Append(@, "find")]
    /\ pc' = [pc EXCEPT ![p] = "idle"]
    /\ UNCHANGED <<coll, graphdb, now, overtaken, poll, events, peak, ids, oids, op, obj, dict, test_doc,
                   seen, want, race, hist>>

\* Attributes a search filter may name.
FilterAttrs == {"externalid", "meta.lastmodified", "username"}

\* datetime.fromisoformat(filter.val): the request carries a string.
IsoOf(t) == [iso |-> t]
FromIso(v) == v.iso

\* UsersSearchResource.on_post with _filter_externalid and
\* _filter_lastmodified, up to the first call of the user database: an
\* unsupported attribute, operator or value is a BadRequest.
UsersSearch(p) ==
    /\ Fresh(p)
    /\ \E attr \in FilterAttrs, operator \in Operators, is_str \in BOOLEAN :
         LET rejected ==
               \/ attr \notin {"externalid", "meta.lastmodified"}
               \/ attr = "externalid" /\ operator # "eq"
               \/ attr = "meta.lastmodified" /\ operator \notin {"gt", "ge"}
               \/ ~is_str
         IN  IF rejected
             THEN /\ StartQuery(p, "search", [attr |-> attr, operator |-> operator,
                                              is_str |-> is_str])
                  /\ ret' = [ret EXCEPT ![p] = "BadRequest"]
                  /\ UNCHANGED <<pc, peak>>
             ELSE IF attr = "externalid"
             THEN \E k \in 1..MaxDocs :
                  /\ StartQuery(p, "search", [attr |-> attr, operator |-> operator,
                                              is_str |-> is_str, val |-> ExtNames[k]])
                  /\ ret' = [ret EXCEPT ![p] = "none"]
                  /\ pc' = [pc EXCEPT ![p] = "lookup"]
                  /\ UNCHANGED peak
             ELSE \E val \in 0..MaxClock, start_index \in 1..(MaxSkip + 1),
                     count \in 1..MaxLimit :
                  LET spec == [mongo_operator |-> MongoOperator(operator),
                               value |-> FromIso(IsoOf(val))]
                  IN  /\ StartQuery(p, "search",
                                    [attr |-> attr, operator |-> operator,
                                     is_str |-> is_str, spec |-> spec,
                                     limit |-> {count}, skip |-> {start_index - 1},
                                     raise_on_missing |-> TRUE])
                      /\ ret' = [ret EXCEPT ![p] = "none"]
                      /\ pc' = [pc EXCEPT ![p] = "count"]
                      /\ peak' = [peak EXCEPT ![p] = Cardinality(Matching(coll, spec))]
    /\ UNCHANGED <<coll, graphdb, now, overtaken, poll, events, ids, oids, dict, test_doc, seen, race, hist>>

\* _filter_externalid, get_user_by_external_id: one read of the collection;
\* on_post takes len(users) for the total.
Lookup(p) ==
    /\ pc[p] = "lookup"
    /\ LET found == {d \in coll : d.external_id = want[p].val}
           users == IF found = {} THEN {}
                    ELSE {InviteFromDict(CHOOSE d \in found : TRUE)}
       IN  result' = [result EXCEPT ![p] =
                         [docs |-> users, total_count |-> Cardinality(users)]]
    /\ ret' = [ret EXCEPT ![p] = "returned"]
    /\ wrote' = [wrote EXCEPT ![p] = Append(@, "find")]
    /\ pc' = [pc EXCEPT ![p] = "idle"]
    /\ UNCHANGED <<coll, graphdb, now, overtaken, poll, events, peak, ids, oids, op, obj, dict, test_doc,
                   seen, want, race, hist>>

\* A collection that is queried while documents come and go.
NextFind ==
    \/ Tick
    \/ StoreInsert
    \/ StoreRemove
    \/ \E p \in Procs : FindByLastModified(p)
    \/ \E p \in Procs : FindAndCount(p)
    \/ \E p \in Procs : UsersSearch(p)
    \/ \E p \in Procs : DbCount(p)
    \/ \E p \in Procs : Fetch(p)
    \/ \E p \in Procs : Lookup(p)

SpecFind == Init /\ [][NextFind]_vars

\* ------------------------------------------------- claims about queries
SkipOf(w) == IF w.skip = {} THEN 0 ELSE ValueOf(w.skip)
CountedOps == {"by_last_modified", "find_and_count", "search"}

\* The step by which a counted query returns its page.
Returns(p) == pc[p] = "fetch" /\ ret'[p] = "returned"

\* C13: the total a counted query returns obeys the correction rule: with
\* no limit, or a page of fewer than limit records, it is skip (0 when
\* absent) plus the number of records returned; with a page of exactly
\* limit records it is the count taken before the fetch.
C13_TotalCorrected ==
    [][\A p \in Procs :
         Returns(p)
         => LET n == Cardinality(result'[p].docs)
                w == want[p]
            IN  IF w.limit = {} \/ n < ValueOf(w.limit)
                THEN result'[p].total_count = SkipOf(w) + n
                ELSE /\ n = ValueOf(w.limit)
                     /\ result'[p].total_count = result[p].total_count]_vars

\* A fetch at skip 2, limit 1 returned nothing and a total of 2, with two
\* matching documents in the collection.
C13_Witness ==
    \E p \in Procs :
        /\ op[p] = "by_last_modified" /\ ret[p] = "returned"
        /\ want[p].limit = {1} /\ want[p].skip = {2}
        /\ result[p].docs = {} /\ result[p].total_count = 2
        /\ Cardinality(Matching(coll, want[p].spec)) = 2

\* C14: the total a counted query returns is at most the largest number of
\* matching documents the collection held at any moment of the call.
C14_TotalNeverExceedsPeak ==
    [][\A p \in Procs : Returns(p) => result'[p].total_count <= peak[p]]_vars

\* C15: when no document matches, a counted query returns an empty page
\* and a total of skip (0 when absent), unless its caller passed
\* raise_on_missing, in which case the absence is an error.
C15_NoMatchIsEmptyPage ==
    [][\A p \in Procs :
         (pc[p] = "fetch" /\ pc'[p] = "idle" /\ Matching(coll, want[p].spec) = {})
         => IF op[p] = "find_and_count" /\ want[p].raise_on_missing
            THEN ret'[p] = "DocumentDoesNotExist"
            ELSE /\ ret'[p] = "returned"
                 /\ result'[p].docs = {}
                 /\ result'[p].total_count = SkipOf(want[p])]_vars

\* The filter of a search request that the handler takes.
Supported(w) ==
    \/ w.attr = "externalid" /\ w.operator = "eq"
    \/ w.attr = "meta.lastmodified" /\ w.operator \in {"gt", "ge"}

\* C16: a last-modified query with an operator other than gt and ge fails
\* with the invalid-operator error and makes no call of the store, neither
\* a count nor a find; a search request with an unsupported attribute or
\* operator is a bad request and makes no call of the store either.
C16_BadOperatorNoStoreAccess ==
    \A p \in Procs :
        /\ op[p] = "by_last_modified"
           => IF want[p].operator \in {"gt", "ge"}
              THEN ret[p] # "InvalidFilterOperator"
              ELSE /\ ret[p] = "InvalidFilterOperator"
                   /\ pc[p] = "idle"
                   /\ wrote[p] = <<>>
                   /\ result[p] = None
        /\ op[p] = "search"
           => IF Supported(want[p]) /\ want[p].is_str
              THEN ret[p] # "BadRequest"
              ELSE /\ ret[p] = "BadRequest"
                   /\ pc[p] = "idle"
                   /\ wrote[p] = <<>>
                   /\ result[p] = None

\* A last-modified query with operator lt was refused while the
\* collection held documents.
C16_Witness ==
    \E p \in Procs :
        /\ op[p] = "by_last_modified" /\ want[p].operator = "lt"
        /\ ret[p] = "InvalidFilterOperator" /\ coll # {}

\* The documents a last-modified query with that operator is to find.
InRange(c, operator, value) ==
    {d \in c : IF operator = "gt" THEN d.last_modified > value
               ELSE d.last_modified >= value}

\* C17: a last-modified query with gt returns only records whose
\* last_modified is greater than the threshold, with ge only records whose
\* last_modified is at least the threshold; the page holds as many of them
\* as the window of skip and limit leaves, and never more than limit.
C17_RangeQueryPage ==
    [][\A p \in Procs :
         (Returns(p) /\ op[p] = "by_last_modified")
         => LET w == want[p]
                m == InRange(coll, w.operator, w.spec.value)
                docs == result'[p].docs
            IN  /\ docs \subseteq {InviteFromDict(d) : d \in m}
                /\ Cardinality(docs) = PageSize(Cardinality(m), w.limit, w.skip)
                /\ w.limit # {} => Cardinality(docs) <= ValueOf(w.limit)
                /\ (w.limit = {} /\ w.skip = {})
                   => docs = {InviteFromDict(d) : d \in m}]_vars

\* A gt query returned a record and left out one that sits on the threshold.
C17_Witness ==
    \E p \in Procs :
        /\ op[p] = "by_last_modified" /\ ret[p] = "returned"
        /\ want[p].operator = "gt"
        /\ result[p].docs # {}
        /\ \A r \in result[p].docs : r.last_modified > want[p].spec.value
        /\ \E d \in coll : d.last_modified = want[p].spec.value

\* ------------------------------------- failures of the graph store
\* C18 as claimed: an update_group whose document commit succeeded and
\* whose graph-store commit failed raises nothing: no caller of
\* update_group is ever handed a graph-store error.
C18_GraphFailureSwallowed ==
    \A p \in Procs : op[p] = "update" => ret[p] # "GraphError"

\* C18 as amended: when graphdb.save fails after the document commit, the
\* error is passed on to the caller of update_group; the graph store is
\* unchanged and the document the call committed stays committed.  Only a
\* save that returns false is passed over with a log line.
C18_GraphFailurePassedOn ==
    [][\A p \in Procs :
         /\ (pc[p] = "graphsave" /\ pc'[p] = "idle" /\ graphdb' = graphdb
             /\ "graph" \notin Range(wrote'[p]))
            => /\ ret'[p] = "GraphError"
               /\ coll' = coll
               /\ Range(wrote'[p]) \cap DocWrites # {}
         /\ (pc[p] = "graphsave" /\ pc'[p] = "idle" /\ ret'[p] = "returned")
            => "graph" \in Range(wrote'[p])
         /\ (op[p] = "update" /\ pc[p] \in SavePcs /\ ret'[p] = "False")
            => (pc'[p] = "idle" /\ graphdb' = graphdb)]_vars

\* An update_group committed the document of a rename and was failed by
\* the graph store: the document is new, the graph group has the old name.
C18_Witness ==
    \E p \in Procs :
        /\ op[p] = "update" /\ ret[p] = "GraphError" /\ want[p].renamed
        /\ wrote[p] = <<"replace">>
        /\ \E g \in graphdb : /\ g.identifier = want[p].group
                              /\ g.display_name # want[p].desired.display_name

\* The graph group as loaded differs from the desired state in its display
\* name or in its members.
Stale(d, o) ==
    \/ d.display_name # o.graph.display_name
    \/ MemberKeys({EntryMember(m) : m \in d.members}) # MemberKeys(o.graph.members)

\* C19: after an update_group committed its document and was failed by the
\* graph store, an update_group of that group with the same desired state
\* that returns has made both commits and leaves the graph group with the
\* desired display name and members; an update_group given a record whose
\* graph group differs from the desired state always goes on to save; and
\* the graph store changes by no other step than a graph-store save.
C19_NextUpdateHeals ==
    [][\A p \in Procs :
         /\ (pc[p] = "graphsave" /\ ret'[p] = "returned"
             /\ \E q \in Procs \ {p} :
                  /\ op[q] = "update" /\ ret[q] = "GraphError"
                  /\ want[q].group = want[p].group
                  /\ want[q].desired = want[p].desired)
            => /\ Range(wrote'[p]) \cap DocWrites # {}
               /\ "graph" \in Range(wrote'[p])
               /\ \A g \in graphdb' :
                    g.identifier = want[p].group
                    => /\ g.display_name = want[p].desired.display_name
                       /\ MemberKeys(g.members)
                            = MemberKeys({EntryMember(m) :
                                            m \in want[p].desired.members})
         /\ (pc[p] = "idle" /\ obj[p] # None /\ "graph" \in DOMAIN obj[p]
             /\ obj[p].graph # None)
            => \A d \in Desired : Stale(d, obj[p]) => UpdateGroupDiff(obj[p], d).changed
         /\ graphdb' # graphdb
            => \E q \in Procs : \/ pc[q] = "graphsave" /\ ret'[q] = "returned"
                                \/ pc[q] = "idle" /\ op'[q] = "create"]_vars

\* ============================================== the user handlers
\* external_id values a request may carry.
UserExternalIds == {NoneStr, "e1"}

\* UsersResource.on_post up to _save_user: the record is constructed with
\* the external_id of the request.  The ObjectId() version of a record
\* that was never saved is a token of its own, beyond those save mints.
OnPost(p) ==
    /\ p \in Creators
    /\ pc[p] = "idle"
    /\ ids < MaxDocs
    /\ \E ext \in UserExternalIds :
         obj' = [obj EXCEPT ![p] = ScimApiInvite(ids + 1, MaxVersion + ids + 1, now, ext)]
    /\ ids' = ids + 1
    /\ StartOp(p, "post", <<>>)
    /\ pc' = [pc EXCEPT ![p] = "begin"]
    /\ UNCHANGED <<coll, graphdb, now, overtaken, poll, events, peak, oids, race, hist>>

\* self._check_version(req, db_user): the version the request names is the
\* version of the record that was loaded.
CheckVersion(if_match, db_user) == if_match = db_user.version

\* The ways on_put refuses a request before it compares anything.
Rejections ==
    {"BadRequest: Id mismatch", "NotFound", "BadRequest: Version mismatch"}

\* Variant of OnPut without the version check; C33 must fail with it.
OnPut_NoVersionCheck(p) ==
    /\ pc[p] = "idle"
    /\ \E s \in 1..ids, ext \in UserExternalIds, other_changed \in BOOLEAN :
         \E id \in {s, 0},
            if_match \in {0} \cup {d.version : d \in {x \in coll : x.scim_id = s}} :
           LET docs == {d \in coll : d.scim_id = s}
               db_user == InviteFromDict(CHOOSE d \in docs : TRUE)
               core_changed == ext # db_user.external_id \/ other_changed
               refused == IF s # id THEN "BadRequest: Id mismatch"
                          ELSE IF docs = {} THEN "NotFound"
                          ELSE "none"
               found == IF s # id THEN "id mismatch"
                        ELSE IF docs = {} THEN "absent"
                        ELSE IF if_match # db_user.version THEN "stale"
                        ELSE "current"
           IN  /\ seen' = [seen EXCEPT ![p] = found]
               /\ IF refused # "none"
                  THEN /\ obj' = [obj EXCEPT ![p] = None]
                       /\ ret' = [ret EXCEPT ![p] = refused]
                       /\ UNCHANGED pc
                  ELSE /\ obj' = [obj EXCEPT ![p] = [db_user EXCEPT !.external_id = ext]]
                       /\ ret' = [ret EXCEPT ![p] = IF core_changed THEN "none" ELSE "unchanged"]
                       /\ pc' = [pc EXCEPT ![p] = IF core_changed THEN "begin" ELSE "idle"]
    /\ op' = [op EXCEPT ![p] = "put"]
    /\ wrote' = [wrote EXCEPT ![p] = <<>>]
    /\ dict' = [dict EXCEPT ![p] = None]
    /\ test_doc' = [test_doc EXCEPT ![p] = None]
    /\ result' = [result EXCEPT ![p] = None]
    /\ want' = [want EXCEPT ![p] = None]
    /\ UNCHANGED <<coll, graphdb, now, overtaken, poll, events, peak, ids, oids, race, hist>>

\* UsersResource.on_put up to _save_user: the id of the body is compared
\* with the path, the record is read, its version is checked against the
\* one the request names, the external_id of the request replaces the
\* record's if they differ, and the record is saved if that or another
\* attribute changed.  History: what on_put found when it compared the ids
\* and the versions.
OnPut(p) ==
    /\ pc[p] = "idle"
    /\ \E s \in 1..ids, ext \in UserExternalIds, other_changed \in BOOLEAN :
         \E id \in {s, 0},
            if_match \in {0} \cup {d.version : d \in {x \in coll : x.scim_id = s}} :
           LET docs == {d \in coll : d.scim_id = s}
               db_user == InviteFromDict(CHOOSE d \in docs : TRUE)
               core_changed == ext # db_user.external_id \/ other_changed
               refused == IF s # id THEN "BadRequest: Id mismatch"
                          ELSE IF docs = {} THEN "NotFound"
                          ELSE IF ~CheckVersion(if_match, db_user)
                               THEN "BadRequest: Version mismatch"
                          ELSE "none"
               found == IF s # id THEN "id mismatch"
                        ELSE IF docs = {} THEN "absent"
                        ELSE IF if_match # db_user.version THEN "stale"
                        ELSE "current"
           IN  /\ seen' = [seen EXCEPT ![p] = found]
               /\ IF refused # "none"
                  THEN /\ obj' = [obj EXCEPT ![p] = None]
                       /\ ret' = [ret EXCEPT ![p] = refused]
                       /\ UNCHANGED pc
                  ELSE /\ obj' = [obj EXCEPT ![p] = [db_user EXCEPT !.external_id = ext]]
                       /\ ret' = [ret EXCEPT ![p] = IF core_changed THEN "none" ELSE "unchanged"]
                       /\ pc' = [pc EXCEPT ![p] = IF core_changed THEN "begin" ELSE "idle"]
    /\ op' = [op EXCEPT ![p] = "put"]
    /\ wrote' = [wrote EXCEPT ![p] = <<>>]
    /\ dict' = [dict EXCEPT ![p] = None]
    /\ test_doc' = [test_doc EXCEPT ![p] = None]
    /\ result' = [result EXCEPT ![p] = None]
    /\ want' = [want EXCEPT ![p] = None]
    /\ UNCHANGED <<coll, graphdb, now, overtaken, poll, events, peak, ids, oids, race, hist>>

\* The event a handler emits for the record it saved.
ApiEvent(p) ==
    [scim_id |-> StrOf(obj[p].scim_id), version |-> obj[p].version,
     status |-> IF op[p] = "post" THEN "CREATED" ELSE "UPDATED"]

\* add_api_event(...), the statement after _save_user in on_post and in
\* on_put: reached when _save_user returned.  The response follows and the
\* request is over.
EmitEvent(p) ==
    /\ pc[p] = "event"
    /\ events' = events \cup {ApiEvent(p)}
    /\ pc' = [pc EXCEPT ![p] = "idle"]
    /\ want' = [want EXCEPT ![p] = None]
    /\ UNCHANGED <<coll, graphdb, now, overtaken, poll, peak, ids, oids, op, obj, dict, test_doc,
                   result, ret, wrote, seen, race, hist>>

\* A collection with the unique indexes, written by the user handlers.
NextUsers ==
    \/ \E p \in Procs : OnPost(p)
    \/ \E p \in Procs : OnPut(p)
    \/ \E p \in Procs : EmitEvent(p)
    \/ \E p \in Procs : SaveBegin(p)
    \/ \E p \in Procs : SaveReplace(p)
    \/ \E p \in Procs : SaveFind(p)
    \/ \E p \in Procs : SaveInsert(p)

SpecUsers == Init /\ [][NextUsers]_vars

\* Storing d next to the documents in others would leave two records with
\* one scim_id or with one external_id that is present.
WouldViolate(d, others) ==
    \E o \in others :
        \/ o.scim_id = d.scim_id
        \/ d.external_id # NoneStr /\ o.external_id = d.external_id

\* No two stored records share a scim_id or a present external_id.
UniqueIds ==
    \A d1, d2 \in coll :
        d1 # d2 => /\ d1._id # d2._id
                   /\ d1.scim_id # d2.scim_id
                   /\ d1.external_id # NoneStr => d1.external_id # d2.external_id

\* C20: no two stored records share a scim_id, and no two share an
\* external_id that is present; a replace or insert that would break this
\* is rejected with a duplicate-key error, which is not the Conflict error,
\* leaves the collection as it was, and reaches the caller of the user
\* handler as a bad request, with the detail 'externalID must be unique'
\* when the external_id index is the one named.
C20_UniqueIndexesEnforced ==
    [][/\ UniqueIds
       /\ \A p \in Procs :
            LET others == IF pc[p] = "replace"
                          THEN coll \ ByTestDoc(test_doc[p]) ELSE coll
            IN  (/\ op[p] \in HandlerOps
                 /\ pc'[p] # pc[p]
                 /\ \/ pc[p] = "replace" /\ ByTestDoc(test_doc[p]) # {}
                    \/ pc[p] = "insert"
                 /\ WouldViolate(dict[p], others))
                => /\ coll' = coll
                   /\ pc'[p] = "idle"
                   /\ ret'[p] \in {"BadRequest: externalID must be unique",
                                   "BadRequest: Duplicated key error"}
                   /\ ret'[p] # "Conflict"
                   /\ ViolatedIndexes(dict[p], others) = {"unique-external-id"}
                      => ret'[p] = "BadRequest: externalID must be unique"]_vars

\* A user was refused an external_id that another stored user has.
C20_Witness ==
    \E p \in Procs :
        /\ op[p] = "put" /\ ret[p] = "BadRequest: externalID must be unique"
        /\ obj[p].external_id # NoneStr
        /\ \E d \in coll : /\ d.external_id = obj[p].external_id
                           /\ d._id # obj[p].invite_id
        /\ Cardinality(coll) >= 2

\* ============================================ labels of group members
\* A desired member is in the graph group as loaded, with another label.
LabelDiffers(d, o) ==
    \E m \in d.members : \E x \in o.graph.members :
        /\ x # None
        /\ x.kind = EntryMember(m).kind
        /\ x.identifier = m.value
        /\ x.display_name # m.display

\* C21: in update_group, a desired member that is in the graph group with
\* another label makes the membership count as changed and the call go on
\* to save, with the member carrying the desired label in the new member
\* list; a call that then returns has written the document and the graph
\* group, in that order, and the stored graph group's user members carry
\* the desired labels; and when the desired members are the loaded members
\* with the same labels, the membership is not marked changed, so that a
\* write is made only for a display name or extension data that differ.
C21_LabelChangeWritten ==
    [][\A p \in Procs :
         /\ (pc[p] = "idle" /\ op'[p] = "update" /\ obj[p] # None
             /\ "graph" \in DOMAIN obj[p] /\ obj[p].graph # None)
            => \A d \in Desired :
                 LET r == UpdateGroupDiff(obj[p], d)
                 IN  /\ LabelDiffers(d, obj[p])
                        => /\ r.set_changed
                           /\ r.changed
                           /\ \A m \in d.members :
                                GetMember(obj[p].graph, m.value, EntryMember(m).kind) # None
                                => EntryMember(m) \in r.group.graph.members
                     /\ SameMembers(d, obj[p])
                        => /\ ~r.set_changed
                           /\ r.group.graph.members = obj[p].graph.members
                           /\ r.changed <=> (r.name_changed \/ r.ext_changed)
         /\ (pc[p] = "idle" /\ op'[p] = "update" /\ pc'[p] = "begin"
             /\ LabelDiffers(want'[p].desired, obj[p]))
            => want'[p].set_changed
         /\ (pc[p] = "graphsave" /\ ret'[p] = "returned" /\ want[p].set_changed)
            => /\ \E k \in 1..Len(wrote'[p]) :
                    /\ wrote'[p][k] \in DocWrites
                    /\ wrote'[p][Len(wrote'[p])] = "graph"
                    /\ k < Len(wrote'[p])
               /\ \A g \in graphdb' :
                    g.identifier = want[p].group
                    => \A m \in want[p].desired.members :
                         m.ref = "Users" => EntryMember(m) \in g.members]_vars

\* An update_group that found a member under another label has written the
\* document and is about to store the graph group: the stored graph group
\* still has the old label, the group in memory the desired one.
C21_Witness ==
    \E p \in Procs :
        /\ pc[p] = "graphsave" /\ op[p] = "update"
        /\ Range(wrote[p]) \cap DocWrites # {}
        /\ \E g \in graphdb : \E m \in want[p].desired.members :
             /\ g.identifier = want[p].group
             /\ EntryMember(m) \in obj[p].graph.members
             /\ EntryMember(m) \notin g.members
             /\ [EntryMember(m) EXCEPT !.display_name = "x"] \in g.members
             /\ MemberKeys(g.members) = MemberKeys(obj[p].graph.members)

\* ================================================ the writes of one save
\* The document writes in a list of writes.
DocWriteCount(w) == Cardinality({k \in 1..Len(w) : w[k] \in DocWrites})

\* C22: one save call makes at most one document write and never goes back
\* to its replace: the collection is changed by a save only at its
\* replace, which then replaces the one document it matched and adds none,
\* or at its insert, which is reached only from an existence check that
\* found no document after a replace that modified none; a replace that
\* matched nothing changes nothing; and a save that raises Conflict has
\* written nothing and is over.
C22_AtMostOneWrite ==
    [][\A p \in Procs :
         /\ DocWriteCount(wrote'[p]) <= 1
         /\ (pc[p] \in SavePcs /\ pc'[p] # pc[p]) => pc'[p] # "replace"
         /\ (pc[p] = "replace" /\ pc'[p] # pc[p])
            => IF ByTestDoc(test_doc[p]) = {}
               THEN coll' = coll /\ pc'[p] = "find" /\ result'[p].modified_count = 0
               ELSE \/ /\ coll' = (coll \ ByTestDoc(test_doc[p])) \cup {dict[p]}
                       /\ Cardinality(coll') = Cardinality(coll)
                       /\ wrote'[p] = Append(wrote[p], "replace")
                       /\ pc'[p] \notin SavePcs
                    \/ /\ coll' = coll
                       /\ pc'[p] = "idle"
                       /\ wrote'[p] = wrote[p]
         /\ (pc[p] = "find" /\ pc'[p] # pc[p])
            => /\ coll' = coll
               /\ wrote'[p] = wrote[p]
               /\ IF ById(test_doc[p]._id) = {}
                  THEN pc'[p] = "insert"
                  ELSE /\ ret'[p] = "Conflict"
                       /\ pc'[p] = "idle"
                       /\ DocWriteCount(wrote'[p]) = 0
         /\ (pc[p] = "insert" /\ pc'[p] # pc[p])
            => /\ result[p].modified_count = 0
               /\ DocWriteCount(wrote[p]) = 0
               /\ pc'[p] \notin SavePcs
               /\ \/ coll' = coll \cup {dict[p]}
                     /\ wrote'[p] = Append(wrote[p], "insert")
                  \/ coll' = coll /\ wrote'[p] = wrote[p]
         /\ (pc'[p] = "insert" /\ pc[p] # "insert") => pc[p] = "find"
         /\ DocWriteCount(wrote'[p]) > DocWriteCount(wrote[p])
            => pc[p] \in {"replace", "insert"}]_vars

\* One save replaced the document, and a save begun from the replaced
\* version was told Conflict without having written.
C22_Witness ==
    \E p, q \in Procs :
        /\ op[p] = "save" /\ pc[p] = "idle" /\ ret[p] = "Conflict"
        /\ wrote[p] = <<>>
        /\ op[q] = "save" /\ pc[q] = "idle" /\ wrote[q] = <<"replace">>

\* ============================================== what a save leaves alone
\* The fields of a document that no save changes.
Identity(d) == [_id |-> d._id, scim_id |-> d.scim_id, created |-> d.created]

\* C23: a successful save changes only version and last_modified.  The
\* step that writes replaces the record in memory by itself with a new
\* version and last_modified, and stores its to_dict; a document it
\* replaces had the same internal_id, scim_id and created; a save that
\* raises leaves the record in memory as it was; and over any sequence of
\* saves the documents stored under one internal_id, and the records held
\* in memory for it, agree on internal_id, scim_id and created.
C23_SaveKeepsIdentity ==
    [][/\ \A p \in Procs :
            /\ (op[p] = "save" /\ pc[p] \in SavePcs /\ pc'[p] = "idle"
                /\ ret'[p] \in {"True", "False"})
               => /\ \E v \in 1..(MaxVersion + 1), t \in 0..(MaxClock + 1) :
                       obj'[p] = [obj[p] EXCEPT !.version = v, !.last_modified = t]
                  /\ obj'[p].version # obj[p].version
                  /\ InviteToDict(obj'[p]) \in coll'
                  /\ coll' \ coll = {InviteToDict(obj'[p])}
                  /\ \A d \in coll \ coll' :
                       Identity(d) = Identity(InviteToDict(obj[p]))
            /\ (op[p] = "save" /\ pc[p] \in SavePcs /\ pc'[p] = "idle"
                /\ ret'[p] \notin {"True", "False"})
               => obj'[p] = obj[p] /\ coll' = coll
            /\ (op[p] = "save" /\ pc[p] \in SavePcs /\ pc'[p] \in SavePcs)
               => obj'[p] = obj[p]
       /\ \A d \in coll \cup coll', e \in coll' :
            d._id = e._id => Identity(d) = Identity(e)
       /\ \A p \in Procs, e \in coll' :
            (obj'[p] # None /\ obj'[p].invite_id = e._id)
            => Identity(InviteToDict(obj'[p])) = Identity(e)]_vars

\* A record created at one time was saved, loaded by another caller and
\* saved again at a later time: the stored document has the new
\* last_modified and the created of the first save.
C23_Witness ==
    \E p \in Procs : \E d \in coll :
        /\ op[p] = "save" /\ pc[p] = "idle" /\ ret[p] = "True"
        /\ wrote[p] = <<"replace">>
        /\ d = InviteToDict(obj[p])
        /\ d.last_modified > d.created
        /\ hist[d._id].n >= 2

\* ================================================ invites side by side
\* A caller constructs an invite with the external_id it was given (None
\* when it was given none) and calls ScimApiInviteDB.save on it.
AddInvite(p) ==
    /\ pc[p] = "idle"
    /\ ids < MaxDocs
    /\ \E ext \in UserExternalIds :
         obj' = [obj EXCEPT ![p] = ScimApiInvite(ids + 1, MaxVersion + ids + 1, now, ext)]
    /\ ids' = ids + 1
    /\ StartOp(p, "add", <<>>)
    /\ pc' = [pc EXCEPT ![p] = "begin"]
    /\ UNCHANGED <<coll, graphdb, now, overtaken, poll, events, peak, oids, race, hist>>

\* The invite collection with its indexes, filled with new invites.
NextInviteIds ==
    \/ \E p \in Procs : AddInvite(p)
    \/ \E p \in Procs : SaveBegin(p)
    \/ \E p \in Procs : SaveReplace(p)
    \/ \E p \in Procs : SaveFind(p)
    \/ \E p \in Procs : SaveInsert(p)

SpecInviteIds == Init /\ [][NextInviteIds]_vars

\* C24: invites without an external_id do not collide: the save of an
\* invite whose external_id is None never ends in a duplicate-key error,
\* whatever else is stored, while no two stored invites have the same
\* present external_id.
C24_AbsentIdsDoNotCollide ==
    /\ \A p \in Procs :
         (op[p] = "add" /\ obj[p] # None /\ obj[p].external_id = NoneStr)
         => ret[p] # "DuplicateKey"
    /\ \A d, e \in coll :
         (d # e /\ d.external_id # NoneStr) => d.external_id # e.external_id

\* ============================================ events of the user handlers
\* How _save_user ends when the save did not go through.
SaveFailures ==
    {"Conflict", "BadRequest: externalID must be unique",
     "BadRequest: Duplicated key error"}

\* C25: the user handlers emit a created/updated event only after the save
\* of that user went through.  An event is added only by a handler whose
\* save has returned after its one document write, and names the record
\* and version that save stored; a handler reaches add_api_event only
\* from the step that stored its document; a save that ends in Conflict
\* or in a duplicate-key error ends the handler with nothing stored and
\* no event; and a PUT that finds no change makes no save and no event.
C25_EventOnlyAfterSave ==
    [][/\ events' # events
          => \E p \in Procs :
               /\ pc[p] = "event" /\ op[p] \in HandlerOps
               /\ ret[p] \in {"True", "False"}
               /\ DocWriteCount(wrote[p]) = 1
               /\ events' = events \cup {ApiEvent(p)}
               /\ ApiEvent(p).status = (IF wrote[p] = <<"insert">> /\ op[p] = "post"
                                        THEN "CREATED" ELSE "UPDATED")
       /\ \A e \in events' : \E d \in coll' : d.scim_id = e.scim_id
       /\ \A p \in Procs :
            /\ (pc'[p] = "event" /\ pc[p] # "event")
               => /\ pc[p] \in {"replace", "insert"}
                  /\ coll' # coll
                  /\ InviteToDict(obj'[p]) \in coll'
            /\ (op[p] \in HandlerOps /\ pc[p] \in SavePcs
                /\ ret'[p] \in SaveFailures)
               => /\ pc'[p] = "idle"
                  /\ coll' = coll
                  /\ events' = events
                  /\ wrote'[p] = <<>>
            /\ (op[p] \in HandlerOps /\ pc[p] \in SavePcs /\ pc'[p] = "idle")
               => ret'[p] \in SaveFailures
            /\ (pc[p] = "idle" /\ op'[p] = "put" /\ ret'[p] = "unchanged"
                /\ (ret[p] # "unchanged" \/ obj'[p] # obj[p]))
               => /\ pc'[p] = "idle"
                  /\ coll' = coll
                  /\ events' = events
                  /\ wrote'[p] = <<>>]_vars

\* A user was created and updated, with an event for each, and another
\* PUT of that user lost the version race: three saves, two events.
C25_Witness ==
    \E p \in Procs :
        /\ op[p] = "put" /\ pc[p] = "idle" /\ ret[p] = "Conflict"
        /\ Cardinality(events) = 2
        /\ \E e1, e2 \in events :
             /\ e1.status = "CREATED" /\ e2.status = "UPDATED"
             /\ e1.scim_id = StrOf(obj[p].scim_id)
             /\ e2.scim_id = StrOf(obj[p].scim_id)
        /\ \A q \in Procs : pc[q] = "idle"

\* ===================================================== the change feed
\* The greatest of a non-empty set of times.
Latest(ts) == CHOOSE t \in ts : \A u \in ts : u <= t

\* One call of get_invites_by_last_modified('gt', T) by a poller whose T is
\* the greatest last_modified it has received, without limit or skip.  A
\* call that matches nothing ends in DocumentDoesNotExist and leaves the
\* poller as it was.
Poll ==
    /\ LET spec == [mongo_operator |-> MongoOperator("gt"), value |-> poll.T]
           m == Matching(coll, spec)
           invites == {InviteFromDict(x) : x \in m}
       IN  /\ m # {}
           /\ poll' = [T |-> Latest({o.last_modified : o \in invites}),
                       got |-> poll.got \cup {o.invite_id : o \in invites}]
    /\ UNCHANGED <<coll, graphdb, now, overtaken, events, peak, ids, oids, pc, op, obj, dict,
                   test_doc, result, ret, wrote, seen, want, race, hist>>

\* New invites are saved by concurrent callers while the clock advances
\* and the poller polls.
NextPoll ==
    \/ Tick
    \/ \E p \in Procs : AddInvite(p)
    \/ \E p \in Procs : SaveBegin(p)
    \/ \E p \in Procs : SaveReplace(p)
    \/ \E p \in Procs : SaveFind(p)
    \/ \E p \in Procs : SaveInsert(p)
    \/ Poll

\* The poller keeps polling; a save that was begun goes through the steps
\* of its straight-line code.
SpecPoll ==
    /\ Init /\ [][NextPoll]_vars
    /\ WF_vars(Poll)
    /\ \A p \in Procs : WF_vars(SaveBegin(p) \/ SaveReplace(p) \/ SaveFind(p) \/ SaveInsert(p))

\* C26: a poller that keeps calling the range query with operator gt and
\* the greatest last_modified it has received as threshold eventually
\* receives every record that was successfully saved.
C26_EverySaveReceived ==
    \A i \in 1..MaxDocs :
        (\E d \in coll : d._id = i) ~> (i \in poll.got)

\* ================================================ removal during a save
\* C27: a save that was called while the store held the record under a
\* version other than the caller's never writes to the store, whatever
\* happens to the record meanwhile: it does not reach its insert, and a
\* record removed between its replace and its existence check is not
\* stored again by it.
C27_StaleWriterNeverWrites ==
    \A p \in Procs :
        (op[p] = "save" /\ seen[p] = "stale")
        => /\ pc[p] # "insert"
           /\ Range(wrote[p]) \cap DocWrites = {}

\* ======================================= updates of one group that overlap
\* C28: a slower earlier update never overwrites the graph state of a
\* later committed update, so that once the updates in flight have
\* returned the graph group is the one written by the update whose
\* document commit was the last: when an update_group stores its graph
\* group after an update whose document commit came after its own has
\* stored that graph group, the graph store stays as it is.  (Commits of
\* one group follow one another, each from the version of the one before,
\* so the later commit carries the later version.)
C28_LaterGraphStateKept ==
    [][\A p \in Procs :
         (pc[p] = "graphsave" /\ ret'[p] = "returned" /\ overtaken[p])
         => graphdb' = graphdb]_vars

\* ============================================ crashes of group requests
\* The process serving a create_group or update_group dies between two of
\* its store calls: all it held in memory is gone, the stores stay as they
\* are, and the process serves no further request.
Crash(p) ==
    /\ op[p] \in GroupOps
    /\ pc[p] \in {"begin", "replace", "find", "insert", "graphsave"}
    /\ pc' = [pc EXCEPT ![p] = "crashed"]
    /\ ret' = [ret EXCEPT ![p] = "crashed"]
    /\ obj' = [obj EXCEPT ![p] = None]
    /\ dict' = [dict EXCEPT ![p] = None]
    /\ test_doc' = [test_doc EXCEPT ![p] = None]
    /\ result' = [result EXCEPT ![p] = None]
    /\ want' = [want EXCEPT ![p] = None]
    /\ seen' = [seen EXCEPT ![p] = "none"]
    /\ overtaken' = [overtaken EXCEPT ![p] = FALSE]
    /\ UNCHANGED <<coll, graphdb, now, poll, events, peak, ids, oids, op, wrote,
                   race, hist>>

\* get_groups, the read of all documents of the collection.  Of each
\* document the reader is left with what the loop uses: the scim_id that
\* from_dict gives the group.
GetGroups(p) ==
    /\ p \in Searchers
    /\ pc[p] = "idle"
    /\ StartOp(p, "get_groups", <<>>)
    /\ obj' = [obj EXCEPT ![p] =
                  [docs |-> {GroupFromDict(d).scim_id : d \in coll}, res |-> {}]]
    /\ pc' = [pc EXCEPT ![p] = IF coll = {} THEN "idle" ELSE "loadgraphs"]
    /\ UNCHANGED <<coll, graphdb, now, overtaken, poll, events, peak, ids, oids,
                   race, hist>>

\* get_groups, one turn of its loop: the read of the graph group by
\* str(group.scim_id), and "assert group.graph".  res holds the groups
\* loaded so far, by scim_id.
LoadGraphs(p) ==
    /\ pc[p] = "loadgraphs"
    /\ \E scim_id \in obj[p].docs :
         LET graph == GraphGet(StrOf(scim_id))
             rest == obj[p].docs \ {scim_id}
         IN  IF graph = None
             THEN /\ ret' = [ret EXCEPT ![p] = "AssertionError"]
                  /\ pc' = [pc EXCEPT ![p] = "idle"]
                  /\ obj' = [obj EXCEPT ![p] = None]
             ELSE /\ obj' = [obj EXCEPT ![p] =
                                [docs |-> rest, res |-> @.res \cup {scim_id}]]
                  /\ ret' = [ret EXCEPT ![p] = IF rest = {} THEN "returned" ELSE @]
                  /\ pc' = [pc EXCEPT ![p] = IF rest = {} THEN "idle" ELSE @]
    /\ UNCHANGED <<coll, graphdb, now, overtaken, poll, events, peak, ids, oids, op,
                   dict, test_doc, result, wrote, seen, want, race, hist>>

\* The group collection with requests that may die at any point, and
\* readers of all groups.
NextGroupCrash ==
    \/ NextGroup
    \/ \E p \in Procs : Crash(p)
    \/ \E p \in Procs : GetGroups(p)
    \/ \E p \in Procs : LoadGraphs(p)

SpecGroupCrash == Init /\ [][NextGroupCrash]_vars

\* The graph group of a document: its identifier is the document's scim_id.
GraphOf(d) == {g \in graphdb : g.identifier = StrOf(GroupFromDict(d).scim_id)}

\* C29: in every reachable state, whatever the interleaving and wherever a
\* create_group or update_group died, every group document has a graph
\* group whose identifier is its scim_id, and the assertion of get_groups
\* has not failed.
C29_DocumentHasGraphGroup ==
    /\ \A d \in coll : GraphOf(d) # {}
    /\ \A p \in Procs : ret[p] # "AssertionError"

\* get_groups returned a group whose update_group had died between the
\* document commit and the graph-store commit.
C29_Witness ==
    \E p, q \in Procs :
        /\ op[p] = "get_groups" /\ pc[p] = "idle" /\ ret[p] = "returned"
        /\ obj[p].res = {GroupFromDict(d).scim_id : d \in coll}
        /\ coll # {}
        /\ op[q] = "update" /\ pc[q] = "crashed" /\ wrote[q] = <<"replace">>

\* C30: every graph group written by create_group has a document: once no
\* create_group is on its way to save the document, be it that its save
\* failed or that it died before, the graph store holds no group without a
\* document.
C30_NoGraphGroupWithoutDocument ==
    \A g \in graphdb :
        \/ \E d \in coll : g \in GraphOf(d)
        \/ \E p \in Procs :
             /\ op[p] = "create" /\ pc[p] \in {"begin"} \cup SavePcs
             /\ obj[p].graph.identifier = g.identifier

\* ================================================ the user PUT in full
\* SCIMSchema.CORE_20_USER and SCIMSchema.NUTID_USER_V1.
CORE_20_USER == "urn:ietf:params:scim:schemas:core:2.0:User"
NUTID_USER_V1 == "https://scim.eduid.se/schema/nutid/user/v1"

\* The core attributes a request may carry: one set of values, and every
\* set that differs from it in one attribute.  Emails and phone numbers are
\* compared as sets by on_put and are sets here.
CoreDefault ==
    [external_id |-> NoneStr, preferred_language |-> NoneStr, name |-> "n0",
     emails |-> {}, phone_numbers |-> {}]
UserCores ==
    {CoreDefault,
     [CoreDefault EXCEPT !.external_id = "e1"],
     [CoreDefault EXCEPT !.preferred_language = "sv"],
     [CoreDefault EXCEPT !.name = "n1"],
     [CoreDefault EXCEPT !.emails = {"m1"}],
     [CoreDefault EXCEPT !.phone_numbers = {"t1"}]}

\* The profiles a request may carry (nutid_user_v1.profiles): none, one
\* profile with either of two contents, and two profiles.
UserProfiles ==
    {[k \in {} |-> Profile("x", "d")],
     [k \in {"a"} |-> Profile("x", "d")],
     [k \in {"a"} |-> Profile("y", "d")],
     [k \in {"a", "b"} |-> Profile("x", "d")]}

\* The bodies of update requests: schemas, core attributes, profiles.
UserRequests ==
    [schemas : {{CORE_20_USER}, {NUTID_USER_V1}, {CORE_20_USER, NUTID_USER_V1}},
     core : UserCores, profiles : UserProfiles]

\* The core attributes of a record.
CoreOf(u) ==
    [external_id |-> u.external_id, preferred_language |-> u.preferred_language,
     name |-> u.name, emails |-> u.emails, phone_numbers |-> u.phone_numbers]

\* on_put, the comparison of the core attributes: each attribute of the
\* request that differs from the record's replaces it.
CoreUpdate(db_user, r) ==
    IF CORE_20_USER \notin r.schemas
    THEN [user |-> db_user, core_changed |-> FALSE]
    ELSE LET c == r.core
             u1 == IF c.external_id # db_user.external_id
                   THEN [db_user EXCEPT !.external_id = c.external_id] ELSE db_user
             u2 == IF c.preferred_language # u1.preferred_language
                   THEN [u1 EXCEPT !.preferred_language = c.preferred_language] ELSE u1
             u3 == IF c.name # u2.name THEN [u2 EXCEPT !.name = c.name] ELSE u2
             u4 == IF c.emails # u3.emails THEN [u3 EXCEPT !.emails = c.emails] ELSE u3
             u5 == IF c.phone_numbers # u4.phone_numbers
                   THEN [u4 EXCEPT !.phone_numbers = c.phone_numbers] ELSE u4
         IN  [user |-> u5, core_changed |-> u5 # db_user]

\* on_put, the comparison of the profiles: a profile of the request that
\* the record lacks or holds with other contents, or a profile of the
\* record that the request lacks, is a change.
NutidChanged(db_user, r) ==
    /\ NUTID_USER_V1 \in r.schemas
    /\ \/ \E this \in DOMAIN r.profiles :
            \/ this \notin DOMAIN db_user.profiles
            \/ ProfileToDict(r.profiles[this]) # ProfileToDict(db_user.profiles[this])
       \/ \E this \in DOMAIN db_user.profiles : this \notin DOMAIN r.profiles

\* on_put, "if nutid_changed": each profile of the request is put into
\* db_user.profiles under its name; the other entries of db_user.profiles
\* stay.
NutidUpdate(db_user, r) ==
    IF ~NutidChanged(db_user, r) THEN db_user
    ELSE [db_user EXCEPT !.profiles =
             [k \in DOMAIN db_user.profiles \cup DOMAIN r.profiles |->
                 IF k \in DOMAIN r.profiles
                 THEN ScimApiProfile(r.profiles[k].attributes, r.profiles[k].data)
                 ELSE db_user.profiles[k]]]

\* on_put from the version check to the decision to save.
UserPutDiff(db_user, r) ==
    LET core == CoreUpdate(db_user, r)
    IN  [user |-> NutidUpdate(core.user, r),
         changed |-> core.core_changed \/ NutidChanged(core.user, r)]

\* UsersResource.on_post up to _save_user, with the attributes and profiles
\* of the request.
UserOnPost(p) ==
    /\ p \in Creators
    /\ pc[p] = "idle"
    /\ ids < MaxIds
    /\ \E core \in UserCores, profiles \in UserProfiles :
         obj' = [obj EXCEPT ![p] =
                    ScimApiUser(ids + 1, MaxVersion + ids + 1, now, core,
                                [k \in DOMAIN profiles |->
                                    ScimApiProfile(profiles[k].attributes,
                                                   profiles[k].data)])]
    /\ ids' = ids + 1
    /\ StartOp(p, "post", <<>>)
    /\ pc' = [pc EXCEPT ![p] = "begin"]
    /\ UNCHANGED <<coll, graphdb, now, overtaken, poll, events, peak, oids, race, hist>>

\* UsersResource.on_put up to _save_user, with the attributes and profiles
\* of the request: the id of the body is compared with the path, the record
\* is loaded (one read of the collection), its version is checked, the
\* attributes and profiles are compared, and the record is saved if any
\* changed.  A request that is refused, or that changes nothing, is over
\* with this step; the caller keeps the body of one that goes on to save.
\* The bodies are tried by one caller, request after request; PUTs that
\* race are those of OnPut.
\* History: what on_put found when it compared the ids and the versions.
UserOnPut(p) ==
    /\ p \in Creators
    /\ pc[p] = "idle"
    /\ \E scim_id \in Ids, r \in UserRequests :
         \E id \in {scim_id, 0},
            if_match \in {0} \cup {d.version : d \in {x \in coll : x.scim_id = scim_id}} :
           LET docs == {d \in coll : d.scim_id = scim_id}
               db_user == UserFromDict(CHOOSE d \in docs : TRUE)
               diff == UserPutDiff(db_user, r)
               refused == IF scim_id # id THEN "BadRequest: Id mismatch"
                          ELSE IF docs = {} THEN "NotFound"
                          ELSE IF ~CheckVersion(if_match, db_user)
                               THEN "BadRequest: Version mismatch"
                          ELSE "none"
               found == IF scim_id # id THEN "id mismatch"
                        ELSE IF docs = {} THEN "absent"
                        ELSE IF if_match # db_user.version THEN "stale"
                        ELSE "current"
           IN  /\ seen' = [seen EXCEPT ![p] = found]
               /\ IF refused # "none"
                  THEN /\ obj' = [obj EXCEPT ![p] = None]
                       /\ ret' = [ret EXCEPT ![p] = refused]
                       /\ want' = [want EXCEPT ![p] = None]
                       /\ pc' = [pc EXCEPT ![p] = "idle"]
                  ELSE IF ~diff.changed
                  THEN /\ obj' = [obj EXCEPT ![p] = None]
                       /\ ret' = [ret EXCEPT ![p] = "unchanged"]
                       /\ want' = [want EXCEPT ![p] = None]
                       /\ pc' = [pc EXCEPT ![p] = "idle"]
                  ELSE /\ obj' = [obj EXCEPT ![p] = diff.user]
                       /\ ret' = [ret EXCEPT ![p] = "none"]
                       /\ want' = [want EXCEPT ![p] = r]
                       /\ pc' = [pc EXCEPT ![p] = "begin"]
    /\ op' = [op EXCEPT ![p] = "put"]
    /\ wrote' = [wrote EXCEPT ![p] = <<>>]
    /\ dict' = [dict EXCEPT ![p] = None]
    /\ test_doc' = [test_doc EXCEPT ![p] = None]
    /\ result' = [result EXCEPT ![p] = None]
    /\ UNCHANGED <<coll, graphdb, now, overtaken, poll, events, peak, ids, oids, race, hist>>

\* Users are created and updated by concurrent requests while the clock
\* advances.
NextUserPut ==
    \/ Tick
    \/ \E p \in Procs : UserOnPost(p)
    \/ \E p \in Procs : UserOnPut(p)
    \/ \E p \in Procs : EmitEvent(p)
    \/ \E p \in Procs : SaveBegin(p)
    \/ \E p \in Procs : SaveReplace(p)
    \/ \E p \in Procs : SaveFind(p)
    \/ \E p \in Procs : SaveInsert(p)

SpecUserPut == Init /\ [][NextUserPut]_vars

\* The record a save of p has just stored.
StoredBy(p) == UserFromDict(CHOOSE d \in coll' : d._id = dict[p]._id)

\* The save of a PUT of p stores its document with this step.
PutCommits(p) ==
    /\ op[p] = "put" /\ want[p] # None
    /\ pc[p] = "replace" /\ pc'[p] = "event"

\* The profiles of record u are those of request r, name by name.
SameProfiles(u, r) ==
    /\ DOMAIN u.profiles = DOMAIN r.profiles
    /\ \A k \in DOMAIN u.profiles \cap DOMAIN r.profiles :
         ProfileToDict(u.profiles[k]) = ProfileToDict(r.profiles[k])

\* C31: when the save of a PUT that carries the NUTID user extension stores
\* its document, the stored user's profiles are the profiles of the
\* request (those added or changed are stored, those missing from the
\* request are gone), and the same request would find nothing changed.
C31_ProfilesAreThoseOfRequest ==
    [][\A p \in Procs :
         (PutCommits(p) /\ NUTID_USER_V1 \in want[p].schemas)
         => /\ SameProfiles(StoredBy(p), want[p])
            /\ ~UserPutDiff(StoredBy(p), want[p]).changed]_vars

\* ============================================ what a user PUT saves
\* The requests that carry both the core schema and the NUTID extension, so
\* that on_put compares every attribute and the profiles.
FullRequests == {r \in UserRequests : r.schemas = {CORE_20_USER, NUTID_USER_V1}}

\* Record u has the core attributes and the profiles of request r.
EqualsRequest(u, r) == CoreOf(u) = r.core /\ SameProfiles(u, r)

\* C32: a PUT whose core attributes (external_id, preferred_language, name,
\* emails, phone numbers) and profiles equal the stored user's makes no
\* save and leaves the stored document, with its version and
\* last_modified, as it is; a PUT in which any of them differs makes one
\* save, and the stored user then has the requested attributes and
\* profiles.  Stated for the requests that carry both schemas.
C32_SaveIffDifferent ==
    [][/\ \A d \in coll, r \in FullRequests :
            UserPutDiff(UserFromDict(d), r).changed <=> ~EqualsRequest(UserFromDict(d), r)
       /\ \A p \in Procs :
            /\ (/\ pc[p] = "idle" /\ op'[p] = "put" /\ ret'[p] = "unchanged"
                /\ (ret[p] # "unchanged" \/ op[p] # "put"))
               => /\ coll' = coll
                  /\ pc'[p] = "idle"
                  /\ wrote'[p] = <<>>
            /\ (PutCommits(p) /\ want[p] \in FullRequests)
               => /\ EqualsRequest(StoredBy(p), want[p])
                  /\ wrote'[p] = <<"replace">>
                  /\ StoredBy(p).version # test_doc[p].version]_vars

\* ============================================ what a user PUT refuses
\* Caller p takes the first step of a PUT.
PutBegins(p) ==
    /\ pc[p] = "idle" /\ op'[p] = "put"
    /\ <<ret[p], seen[p], obj[p], op[p]>> # <<ret'[p], seen'[p], obj'[p], op'[p]>>

\* The stored document of the record whose save p is in has another
\* version than the one p loaded: another writer's change is stored.
LostRace(p) ==
    \E d \in coll : d._id = test_doc[p]._id /\ d.version # test_doc[p].version

\* C33: a PUT whose body id differs from the path scim_id, whose user does
\* not exist, or whose version is not the loaded user's, is refused with
\* the error for that case in its first step, before any write: the
\* collection and the events stay as they are and no save is begun; a PUT
\* is refused in no other case.  A PUT that passed the version check and
\* finds another writer's version stored when it saves changes nothing in
\* the collection, emits no event and ends in Conflict.
C33_RefusedBeforeAnyWrite ==
    [][\A p \in Procs :
         /\ PutBegins(p)
            => /\ seen'[p] = "id mismatch" <=> ret'[p] = "BadRequest: Id mismatch"
               /\ seen'[p] = "absent" <=> ret'[p] = "NotFound"
               /\ seen'[p] = "stale" <=> ret'[p] = "BadRequest: Version mismatch"
               /\ seen'[p] = "current" <=> ret'[p] \in {"none", "unchanged"}
               /\ ret'[p] \in Rejections
                  => /\ pc'[p] = "idle"
                     /\ wrote'[p] = <<>>
               /\ coll' = coll
               /\ events' = events
         /\ (op[p] = "put" /\ pc[p] \in SavePcs /\ pc'[p] # pc[p] /\ LostRace(p))
            => /\ coll' = coll
               /\ events' = events
               /\ pc'[p] # "event"
               /\ pc[p] = "find" => (pc'[p] = "idle" /\ ret'[p] = "Conflict")]_vars

\* A PUT that had passed the version check lost the race to another PUT of
\* the same user and ended in Conflict with the other's document stored; a
\* later PUT naming a version that is not the stored one was refused.
C33_Witness ==
    \E p, q \in Procs :
        /\ p # q
        /\ op[p] = "put" /\ pc[p] = "idle" /\ ret[p] = "Conflict"
        /\ \E d \in coll : d._id = obj[p].invite_id /\ d.version # obj[p].version
        /\ op[q] = "put" /\ pc[q] = "idle" /\ ret[q] = "BadRequest: Version mismatch"
        /\ Cardinality(events) = 2

====
